---------------------------- MODULE Spec2Model ----------------------------
(***************************************************************************)
(* The unified voice pipeline of src/mac-client/unified_voice_processor.py *)
(* (class UnifiedVoiceProcessor): per-session speech state machine,        *)
(* transcription buffer, interruption analysis and session bookkeeping.    *)
(*                                                                         *)
(* Encoding.  An audio array is represented by the number of frames taken  *)
(* before the frame that carried it (its tag); what the collaborators      *)
(* compute from the audio                                                  *)
(* (the VAD answer, the RMS energy, the transcripts) is an input of the    *)
(* frame.  Scores, weights and probabilities are in thousandths (Scale),   *)
(* so that 0.7 is 700; all products stay exact.  Python's None is the      *)
(* value None, and Truthy is Python's truth test of an optional integer.   *)
(* Wall-clock fields (timestamp, processing_time_ms) and the VAD           *)
(* confidence are not modelled: no session state depends on them.          *)
(***************************************************************************)
EXTENDS Integers, Sequences, FiniteSets, TLC

VARIABLES
    active_sessions,   \* self.active_sessions: session_id -> session dict
    pipeline_state,    \* self.pipeline_state (frames_processed, sessions_active)
    metrics,           \* self.metrics (interruptions_detected, transcriptions_completed)
    result,            \* the ProcessingResult of the frame processed last
    analysis,          \* the dict _analyze_interruption returned for that frame
    calls,             \* the collaborator calls made while processing that frame
    env,               \* the number of environment events so far
    backlog,           \* the frames that were created before the first was counted
    observed,          \* per live session, what its frames' results have shown
    frame_queue,       \* self.frame_queue: the frames waiting for the processing loop
    loop,              \* the locals of the processing thread: its batch and its frame
    is_processing,     \* self.is_processing
    response,          \* what the call of the API made last gave back
    trace,             \* what has become of the frames that were queued
    threads            \* who holds session_lock, and where each thread is

queue_vars == <<frame_queue, loop, is_processing, response, trace, threads>>

vars == <<active_sessions, pipeline_state, metrics, result, analysis, calls, env,
          backlog, observed, frame_queue, loop, is_processing, response, trace,
          threads>>

-----------------------------------------------------------------------------
(* Bounds of the model *)

MaxFrames == 11
MaxEvents == 3
LongFrames == 52
LongEvents == 1
Backlog == 10
LeadSilence == 30
SpeechRun == 15
TailSilence == 11

SessionIds == {"s1", "s2"}

(* Program constants *)

None == -1
Scale == 1000
frame_duration_ms == 20
confidence_threshold == 700
temporal_threshold_ms == 500
silence_frames_for_endpoint == 10
cooldown_frames == 50
PartialMinBuffer == 10
BufferCap == 50
BufferKeep == 25
HistoryKeep == 25
MinPartialFrames == 5
MinFinalFrames == 15
PartialWindow == 10
DensityWindow == 5
EnergyWindow == 5
density_threshold == 600
weight_energy_increase == 300
weight_sustained_speech == 400
weight_interruption_keywords == 300
energy_threshold == 2
max_batch_size == 5
QueueCapacity == 500

(* RMS energies of a frame, in hundredths: a quiet one, below the energy   *)
(* threshold, and one more than twice as loud, above it.                   *)
Quiet == 1
Loud == 3
Energies == {Quiet, Loud}

(* Transcripts, as the words the transcriber returned (after strip()). *)
Texts == { <<>>, <<"wait">>, <<"wait", "stop">> }

(* The transcriber raising an exception instead of returning a text. *)
TranscriberRaises == <<"Exception">>

(* What the VAD model does with a frame. *)
VadAnswers == {"speech", "silence", "raises"}

interruption_keywords == {"wait", "stop", "excuse me", "actually", "but", "however"}

-----------------------------------------------------------------------------
(* Helpers *)

Truthy(x) == x # None /\ x # 0

Min(a, b) == IF a < b THEN a ELSE b
Max(a, b) == IF a > b THEN a ELSE b

(* seq[-n:] *)
LastN(seq, n) ==
    IF Len(seq) <= n THEN seq ELSE SubSeq(seq, Len(seq) - n + 1, Len(seq))

RECURSIVE SumSeq(_)
SumSeq(seq) == IF seq = <<>> THEN 0 ELSE Head(seq) + SumSeq(Tail(seq))

CountTrue(seq) == Cardinality({i \in 1..Len(seq) : seq[i]})

Words(text) == {text[i] : i \in 1..Len(text)}

-----------------------------------------------------------------------------
(* Sessions: _get_or_create_session *)

NewSession(session_id) ==
    [ session_id               |-> session_id,
      frame_count              |-> 0,
      speech_active            |-> FALSE,
      speech_start_frame       |-> None,
      speech_end_frame         |-> None,
      silence_frame_count      |-> 0,
      stt_buffer               |-> <<>>,
      energy_history           |-> <<>>,
      recent_speech_frames     |-> <<>>,
      agent_speaking           |-> FALSE,
      agent_speech_start_frame |-> None,
      last_interruption_frame  |-> None,
      conversation_context     |-> <<>>,
      performance_metrics      |-> [ frames_processed         |-> 0,
                                     transcriptions_completed |-> 0,
                                     interruptions_detected   |-> 0 ] ]

(* The session map and the sessions_active counter after the call. *)
GetOrCreateSessionAnew(sessions, pstate, session_id) == [ sessions |-> (session_id :> NewSession(session_id)) @@ sessions, pstate |-> [pstate EXCEPT !.sessions_active = @ + 1] ]

GetOrCreateSession(sessions, pstate, session_id) ==
    IF session_id \notin DOMAIN sessions
    THEN [ sessions |-> sessions @@ (session_id :> NewSession(session_id)),
           pstate   |-> [pstate EXCEPT !.sessions_active = @ + 1] ]
    ELSE [ sessions |-> sessions, pstate |-> pstate ]

-----------------------------------------------------------------------------
(* Speech Activity Detector: _update_speech_state *)

(* line 382: the silence counter has reached the endpoint threshold *)
EndpointReachedLate(silence_frame_count) == silence_frame_count > silence_frames_for_endpoint

EndpointReached(silence_frame_count) ==
    silence_frame_count >= silence_frames_for_endpoint

(* lines 383-385: the session once speech has ended *)
SpeechEndedStillActive(session, frame_index) ==
    [session EXCEPT !.speech_end_frame = frame_index]

SpeechEnded(session, frame_index) ==
    [session EXCEPT !.speech_active = FALSE, !.speech_end_frame = frame_index]

UpdateSpeechState(session, has_speech, frame_index) ==
    LET prev_speech == session.speech_active IN
    IF has_speech /\ ~prev_speech
    THEN [ session |-> [session EXCEPT !.speech_active = TRUE,
                                       !.speech_start_frame = frame_index,
                                       !.silence_frame_count = 0],
           state   |-> "speech_start" ]
    ELSE IF has_speech /\ prev_speech
    THEN [ session |-> [session EXCEPT !.silence_frame_count = 0],
           state   |-> "speech_continue" ]
    ELSE IF ~has_speech /\ prev_speech
    THEN LET counted == [session EXCEPT !.silence_frame_count = @ + 1] IN
         IF EndpointReached(counted.silence_frame_count)
         THEN [ session |-> SpeechEnded(counted, frame_index),
                state   |-> "speech_end" ]
         ELSE [ session |-> counted, state |-> "speech_continue" ]
    ELSE [ session |-> session, state |-> "silence" ]

-----------------------------------------------------------------------------
(* Transcription: _get_partial_transcription, _get_final_transcription.    *)
(* answer is what the transcriber returns when it is reached, or           *)
(* TranscriberRaises: both handlers return "" then.  Frames are nominal:   *)
(* 20 ms, so 200 ms is PartialWindow frames and 300 ms is MinFinalFrames   *)
(* frames.                                                                 *)

PartialTranscribes(audio_buffer) ==
    /\ Len(audio_buffer) >= MinPartialFrames
    /\ Len(LastN(audio_buffer, PartialWindow)) >= PartialWindow

GetPartialTranscriptionUncaught(audio_buffer, answer) ==
    IF PartialTranscribes(audio_buffer) THEN answer ELSE <<>>

GetPartialTranscription(audio_buffer, answer) ==
    IF PartialTranscribes(audio_buffer) /\ answer # TranscriberRaises
    THEN answer ELSE <<>>

FinalTranscribes(audio_buffer) ==
    /\ audio_buffer # <<>>
    /\ Len(audio_buffer) >= MinFinalFrames

GetFinalTranscription(audio_buffer, answer) ==
    IF FinalTranscribes(audio_buffer) /\ answer # TranscriberRaises
    THEN answer ELSE <<>>

-----------------------------------------------------------------------------
(* Interruption Analyzer: _can_interrupt, _analyze_interruption *)

CanInterrupt(session) ==
    /\ session.agent_speaking
    /\ ~ ( /\ Truthy(session.agent_speech_start_frame)
           /\ (session.frame_count - session.agent_speech_start_frame)
                  * frame_duration_ms < temporal_threshold_ms )
    /\ ~ ( /\ Truthy(session.last_interruption_frame)
           /\ session.frame_count - session.last_interruption_frame
                  < cooldown_frames )

(* scores['energy_increase'], or None when the factor is absent *)
EnergyIncrease(current_energy, energy_history) ==
    LET recent == LastN(energy_history, EnergyWindow)
        total  == SumSeq(recent)
    IN  IF Len(energy_history) > 0 /\ current_energy * Len(recent) > total * 2
        THEN IF total = 0 THEN Scale
             ELSE Min(Scale, (current_energy * Len(recent) * Scale) \div (total * 2))
        ELSE None

(* scores['sustained_speech'] *)
SustainedSpeech(speech_frames) ==
    LET spoken == CountTrue(LastN(speech_frames, DensityWindow)) IN
    IF /\ Len(speech_frames) >= DensityWindow
       /\ spoken * Scale > density_threshold * DensityWindow
    THEN (spoken * Scale) \div DensityWindow
    ELSE None

(* scores['interruption_keywords'] *)
InterruptionKeywords(transcript) ==
    LET keyword_matches == Cardinality(interruption_keywords \cap Words(transcript)) IN
    IF transcript # <<>> /\ keyword_matches > 0
    THEN Min(Scale, (keyword_matches * Scale) \div 2)
    ELSE None

Weighted(score, weight) == IF score = None THEN 0 ELSE score * weight
Present(score, weight) == IF score = None THEN 0 ELSE weight

TotalScore(scores) ==
      Weighted(scores.energy_increase, weight_energy_increase)
    + Weighted(scores.sustained_speech, weight_sustained_speech)
    + Weighted(scores.interruption_keywords, weight_interruption_keywords)

TotalWeight(scores) ==
      Present(scores.energy_increase, weight_energy_increase)
    + Present(scores.sustained_speech, weight_sustained_speech)
    + Present(scores.interruption_keywords, weight_interruption_keywords)

DenominatorRenormalised(total_weight) == IF total_weight = 0 THEN Scale ELSE total_weight

(* total_score / max(total_weight, 1.0), in thousandths *)
Denominator(total_weight) == Max(total_weight, Scale)

Probability(scores) == TotalScore(scores) \div Denominator(TotalWeight(scores))

(* probability > confidence_threshold, decided exactly *)
IsInterruption(scores) ==
    TotalScore(scores) > confidence_threshold * Denominator(TotalWeight(scores))

NoScores ==
    [ energy_increase |-> None, sustained_speech |-> None,
      interruption_keywords |-> None ]

(* lines 470-526: the factors, the probability and the decision *)
MultiFactorAnalysis(current_energy, session, transcript, can_interrupt) ==
    LET scores ==
            [ energy_increase |->
                  EnergyIncrease(current_energy, session.energy_history),
              sustained_speech |->
                  SustainedSpeech(session.recent_speech_frames),
              interruption_keywords |->
                  InterruptionKeywords(transcript) ]
        history == LastN(Append(session.energy_history, current_energy),
                         HistoryKeep)
    IN  [ session |-> [session EXCEPT !.energy_history = history],
          out     |-> [ probability     |-> Probability(scores),
                        is_interruption |-> IsInterruption(scores),
                        reason          |-> "multi_factor_analysis",
                        can_interrupt   |-> can_interrupt,
                        pattern_scores  |-> scores ] ]

AnalyzeInterruptionNoEarlyReturn(current_energy, session, transcript) == MultiFactorAnalysis(current_energy, session, transcript, CanInterrupt(session))

AnalyzeInterruption(current_energy, session, transcript) ==
    IF ~CanInterrupt(session)
    THEN [ session |-> session,
           out     |-> [ probability     |-> 0,
                         is_interruption |-> FALSE,
                         reason          |-> "interruption_not_allowed",
                         can_interrupt   |-> FALSE,
                         pattern_scores  |-> NoScores ] ]
    ELSE MultiFactorAnalysis(current_energy, session, transcript, TRUE)

NoAnalysis ==
    [ probability |-> 0, is_interruption |-> FALSE, reason |-> "no_analysis",
      can_interrupt |-> FALSE, pattern_scores |-> NoScores ]


-----------------------------------------------------------------------------
(* One frame through VAD + STT + Smart Turn: _process_frame_unified.       *)
(* frame is the AudioFrame (data: its tag, energy: the RMS of the data),   *)
(* vad what the VAD model does with it, partial_answer and final_answer    *)
(* what the transcriber does if it is called.                              *)

NoCalls ==
    [ partial |-> 0, final |-> 0, partial_audio |-> <<>>, final_audio |-> <<>>,
      partial_raised |-> FALSE, vad_raised |-> FALSE, vad_energy |-> None ]

(* _process_vad: the model's answer, or the energy fallback when it raises *)
ProcessVadNoFallback(vad, energy) == vad = "speech"

ProcessVad(vad, energy) ==
    IF vad = "raises" THEN energy > energy_threshold ELSE vad = "speech"

(* "Keep buffer manageable", lines 273-275 *)
KeepManageableOldest(stt_buffer) ==
    IF Len(stt_buffer) > BufferCap THEN SubSeq(stt_buffer, 1, BufferKeep) ELSE stt_buffer

KeepManageableTooLate(stt_buffer) ==
    IF Len(stt_buffer) > BufferCap * 2 THEN LastN(stt_buffer, BufferKeep) ELSE stt_buffer

KeepManageableNothing(stt_buffer) == IF Len(stt_buffer) > BufferCap THEN <<>> ELSE stt_buffer

KeepManageable(stt_buffer) ==
    IF Len(stt_buffer) > BufferCap THEN LastN(stt_buffer, BufferKeep) ELSE stt_buffer

(* Step 2, lines 264-281: the session and the texts after the STT step *)
SttRunsAlways(has_speech, session) == TRUE

(* line 264: the STT block runs for speech and while the speech is active *)
SttRuns(has_speech, session) == has_speech \/ session.speech_active

SttStep(frame, session, has_speech, speech_state, partial_answer, final_answer) ==
    IF ~SttRuns(has_speech, session)
    THEN [ session |-> session, partial_text |-> <<>>, final_text |-> <<>>,
           stt_confidence |-> 0, transcription_complete |-> FALSE,
           calls |-> NoCalls ]
    ELSE LET appended == Append(session.stt_buffer, frame.data)
             partial  == Len(appended) >= PartialMinBuffer
             kept     == IF partial THEN KeepManageable(appended) ELSE appended
             final    == speech_state = "speech_end" /\ kept # <<>>
         IN  [ session |-> [session EXCEPT
                               !.stt_buffer = IF final THEN <<>> ELSE kept],
               partial_text |-> IF partial
                                THEN GetPartialTranscription(appended, partial_answer)
                                ELSE <<>>,
               final_text |-> IF final
                              THEN GetFinalTranscription(kept, final_answer)
                              ELSE <<>>,
               stt_confidence |-> IF partial THEN 800 ELSE 0,
               transcription_complete |-> final,
               calls |-> [ partial |-> IF partial /\ PartialTranscribes(appended)
                                       THEN 1 ELSE 0,
                           final   |-> IF final /\ FinalTranscribes(kept)
                                       THEN 1 ELSE 0,
                           partial_audio |-> IF partial /\ PartialTranscribes(appended)
                                             THEN LastN(appended, PartialWindow)
                                             ELSE <<>>,
                           final_audio |-> IF final /\ FinalTranscribes(kept)
                                           THEN kept ELSE <<>>,
                           partial_raised |-> /\ partial
                                              /\ PartialTranscribes(appended)
                                              /\ partial_answer = TranscriberRaises,
                           vad_raised |-> FALSE,
                           vad_energy |-> None ] ]

(* line 289: the interruption analysis runs only for speech over the agent *)
ShouldAnalyzeAnySpeech(has_speech, session) == has_speech

ShouldAnalyze(has_speech, session) == has_speech /\ session.agent_speaking

ProcessFrameUnified(frame, session, vad_answer, partial_answer, final_answer) ==
    LET has_speech == ProcessVad(vad_answer, frame.energy)
        vad     == UpdateSpeechState(session, has_speech, frame.frame_index)
        stt     == SttStep(frame, vad.session, has_speech, vad.state,
                           partial_answer, final_answer)
        analyze == ShouldAnalyze(has_speech, stt.session)
        turn    == IF analyze
                   THEN AnalyzeInterruption(
                            frame.energy, stt.session,
                            IF stt.partial_text # <<>> THEN stt.partial_text
                                                       ELSE stt.final_text)
                   ELSE [ session |-> stt.session, out |-> NoAnalysis ]
    IN  [ session  |-> turn.session,
          analysis |-> turn.out,
          calls    |-> IF vad_answer = "raises"
                       THEN [stt.calls EXCEPT !.vad_raised = TRUE,
                                              !.vad_energy = frame.energy]
                       ELSE stt.calls,
          result   |-> [ frame_index              |-> frame.frame_index,
                         session_id               |-> frame.session_id,
                         has_speech               |-> has_speech,
                         speech_state             |-> vad.state,
                         partial_text             |-> stt.partial_text,
                         final_text               |-> stt.final_text,
                         stt_confidence           |-> stt.stt_confidence,
                         transcription_complete   |-> stt.transcription_complete,
                         interruption_probability |-> turn.out.probability,
                         is_interruption          |-> turn.out.is_interruption,
                         interruption_reason      |-> turn.out.reason,
                         can_interrupt            |-> turn.out.can_interrupt ] ]

-----------------------------------------------------------------------------
(* _update_session_state: the session after the frame's result is recorded *)

UpdateSessionState(session, res) ==
    [ session EXCEPT
        !.frame_count = res.frame_index,
        !.performance_metrics.frames_processed = @ + 1,
        !.recent_speech_frames = LastN(Append(@, res.has_speech), HistoryKeep),
        !.performance_metrics.transcriptions_completed =
            IF res.transcription_complete THEN @ + 1 ELSE @,
        !.performance_metrics.interruptions_detected =
            IF res.is_interruption THEN @ + 1 ELSE @,
        !.last_interruption_frame =
            IF res.is_interruption THEN res.frame_index ELSE @ ]

(* the process-wide counters of self.metrics, lines 599-607 *)
UpdateMetrics(m, res) ==
    [ m EXCEPT
        !.transcriptions_completed = IF res.transcription_complete THEN @ + 1 ELSE @,
        !.interruptions_detected = IF res.is_interruption THEN @ + 1 ELSE @ ]

-----------------------------------------------------------------------------
(* State *)

NoResult ==
    [ frame_index |-> None, session_id |-> "", has_speech |-> FALSE,
      speech_state |-> "silence", partial_text |-> <<>>, final_text |-> <<>>,
      stt_confidence |-> 0, transcription_complete |-> FALSE,
      interruption_probability |-> 0, is_interruption |-> FALSE,
      interruption_reason |-> "no_analysis", can_interrupt |-> FALSE ]

(* No frame: the processing thread is between two frames. *)
NoFrame == [ data |-> None, frame_index |-> None, session_id |-> "" ]

(* The processing thread before it has taken a batch: frames_batch is      *)
(* empty, and it holds no frame and no session.  attached tells whether    *)
(* the session dict it holds is still the one in active_sessions; held is  *)
(* that dict once it is not.                                               *)
IdleLoop ==
    [ batch |-> <<>>, size |-> 0, frame |-> NoFrame, attached |-> TRUE,
      held |-> NewSession("") ]

NoResponse == [ call |-> "", value |-> "" ]

NoTrace ==
    [ queued |-> 0, started |-> <<>>, finished |-> 0, failed |-> {}, emitted |-> 0,
      orphaned |-> 0, since |-> [s \in SessionIds |-> 0] ]

(* No thread holds session_lock; the processing thread is between two      *)
(* frames and no call of the API is under way.                             *)
(* steps counts the steps the processing thread takes once is_processing   *)
(* is false.                                                               *)
NoThreads == [ lock |-> "", loop |-> "idle", api |-> "idle", arg |-> "", steps |-> 0 ]

(* After initialize(): the queue is empty and the processing thread runs. *)
QueueIdle ==
    /\ frame_queue = <<>>
    /\ loop = IdleLoop
    /\ is_processing = TRUE
    /\ response = NoResponse
    /\ trace = NoTrace
    /\ threads = NoThreads

(* self.pipeline_state after __init__; processing_load is in thousandths  *)
(* of a percent.                                                           *)
NewPipelineState ==
    [ frames_processed |-> 0, sessions_active |-> 0, processing_load |-> 0,
      pipeline_health |-> "healthy" ]

Init ==
    /\ active_sessions = << >>
    /\ pipeline_state = NewPipelineState
    /\ metrics = [ interruptions_detected |-> 0, transcriptions_completed |-> 0 ]
    /\ result = NoResult
    /\ analysis = NoAnalysis
    /\ calls = NoCalls
    /\ env = 0
    /\ backlog = 0
    /\ observed = << >>
    /\ QueueIdle

(* The frame of a session that the pipeline takes next.  process_audio_frame *)
(* gives a frame the value of pipeline_state['frames_processed'] as its     *)
(* index when the frame is created, and the counter moves only when a batch *)
(* has been processed: the frames created before the first batch was        *)
(* counted (backlog of them) all carry index 0, a frame created after the   *)
(* frames before it were counted carries their number.  The data of a frame *)
(* is tagged with the number of frames taken before it.                     *)
NextFrame(session_id, energy) ==
    [ data        |-> pipeline_state.frames_processed,
      frame_index |-> IF pipeline_state.frames_processed < backlog
                      THEN 0 ELSE pipeline_state.frames_processed,
      energy      |-> energy,
      session_id  |-> session_id ]

(* One frame of a batch: the body of the loop of _process_frame_batch.     *)
ProcessFrame(session_id, vad_answer, energy, partial_answer, final_answer) ==
    LET got     == GetOrCreateSession(active_sessions, pipeline_state, session_id)
        frame   == NextFrame(session_id, energy)
        out     == ProcessFrameUnified(frame, got.sessions[session_id], vad_answer,
                                       partial_answer, final_answer)
        updated == UpdateSessionState(out.session, out.result)
    IN  /\ active_sessions' = [got.sessions EXCEPT ![session_id] = updated]
        /\ pipeline_state' = [got.pstate EXCEPT !.frames_processed = @ + 1]
        /\ metrics' = UpdateMetrics(metrics, out.result)
        /\ result' = out.result
        /\ analysis' = out.analysis
        /\ calls' = out.calls

AgentSpeakingSetAnew(session, is_speaking) == [session EXCEPT !.agent_speaking = is_speaking, !.agent_speech_start_frame = IF is_speaking THEN session.frame_count ELSE None]

(* lines 809-817: the session after the two branches, or as it was *)
AgentSpeakingSet(session, is_speaking) ==
    IF is_speaking /\ ~session.agent_speaking
    THEN [session EXCEPT !.agent_speaking = TRUE,
                         !.agent_speech_start_frame = session.frame_count]
    ELSE IF ~is_speaking /\ session.agent_speaking
    THEN [session EXCEPT !.agent_speaking = FALSE,
                         !.agent_speech_start_frame = None]
    ELSE session

(* set_agent_speaking_state *)
SetAgentSpeakingState(session_id, is_speaking) ==
    LET got     == GetOrCreateSession(active_sessions, pipeline_state, session_id)
        session == got.sessions[session_id]
    IN  /\ active_sessions' =
              [got.sessions EXCEPT ![session_id] = AgentSpeakingSet(session, is_speaking)]
        /\ pipeline_state' = got.pstate
        /\ UNCHANGED <<metrics, result, analysis, calls>>

(* cleanup_session *)
CleanupSession(session_id) ==
    /\ IF session_id \in DOMAIN active_sessions
       THEN /\ active_sessions' =
                  [s \in DOMAIN active_sessions \ {session_id} |-> active_sessions[s]]
            /\ pipeline_state' = [pipeline_state EXCEPT !.sessions_active = @ - 1]
       ELSE UNCHANGED <<active_sessions, pipeline_state>>
    /\ UNCHANGED <<metrics, result, analysis, calls>>

-----------------------------------------------------------------------------
(* The environment: which frames arrive and which calls are made.  env     *)
(* counts its events: a VAD answer that differs from the session's         *)
(* previous one, a loud frame, a call that changes a session, and (twice)  *)
(* a frame of another session than the frame before it.                    *)

SwitchCost(session_id, has_speech) ==
    IF /\ session_id \in DOMAIN active_sessions
       /\ active_sessions[session_id].recent_speech_frames # <<>>
       /\ LET flags == active_sessions[session_id].recent_speech_frames
          IN  flags[Len(flags)] # has_speech
    THEN 1 ELSE 0

SessionCost(session_id) ==
    LET previous == IF result.session_id = "" THEN "s1" ELSE result.session_id
    IN  IF previous # session_id THEN 2 ELSE 0

LoudCost(energy) == IF energy = Loud THEN 1 ELSE 0

RaiseCost(vad_answer, energy) == IF vad_answer = "raises" THEN 1 ELSE LoudCost(energy)

FrameCost(session_id, vad_answer, energy) ==
      SwitchCost(session_id, ProcessVad(vad_answer, energy))
    + SessionCost(session_id) + RaiseCost(vad_answer, energy)

(* The VAD model's answer that gives has_speech. *)
Answer(has_speech) == IF has_speech THEN "speech" ELSE "silence"

(* The energy of a frame is read only by the interruption analysis, which  *)
(* runs when the frame has speech and the agent speaks; any other frame is *)
(* taken quiet.                                                            *)
FrameEnergies(session_id, has_speech) ==
    IF /\ has_speech
       /\ session_id \in DOMAIN active_sessions
       /\ active_sessions[session_id].agent_speaking
    THEN Energies ELSE {Quiet}

(* The transcriber's answer matters only on a frame that calls it.         *)
Probe(session_id, has_speech) ==
    ProcessFrameUnified(
        NextFrame(session_id, Quiet),
        GetOrCreateSession(active_sessions, pipeline_state, session_id)
            .sessions[session_id],
        Answer(has_speech), <<>>, <<>>).calls

PartialAnswers(session_id, has_speech) ==
    IF Probe(session_id, has_speech).partial > 0 THEN Texts ELSE {<<>>}

FinalAnswers(session_id, has_speech) ==
    IF Probe(session_id, has_speech).final > 0 THEN Texts ELSE {<<>>}

(* What an observer of the results has seen of a session since it was      *)
(* created: how many speech_start and speech_end states were returned, the *)
(* indices of the frames classified as interruptions, the tags of the      *)
(* frames that were appended to the transcription buffer, and the ordinals *)
(* (within the session) of the last two frames that called the partial     *)
(* transcriber.                                                            *)
NoObservation ==
    [ starts |-> 0, ends |-> 0, interruptions |-> <<>>, accumulated |-> <<>>,
      partial_at |-> <<>> ]

ObserveFrame(seen, res, made, session, tag) ==
    [ starts        |-> seen.starts
                          + (IF res.speech_state = "speech_start" THEN 1 ELSE 0),
      ends          |-> seen.ends
                          + (IF res.speech_state = "speech_end" THEN 1 ELSE 0),
      interruptions |-> IF res.is_interruption
                        THEN Append(seen.interruptions, res.frame_index)
                        ELSE seen.interruptions,
      accumulated   |-> IF /\ session.stt_buffer # <<>>
                           /\ session.stt_buffer[Len(session.stt_buffer)] = tag
                        THEN Append(seen.accumulated, tag)
                        ELSE seen.accumulated,
      partial_at    |-> IF made.partial > 0
                        THEN LastN(Append(seen.partial_at,
                                          session.performance_metrics.frames_processed),
                                   2)
                        ELSE seen.partial_at ]

Seen(session_id) ==
    IF session_id \in DOMAIN observed THEN observed[session_id] ELSE NoObservation

FrameWithin(max_frames, max_events, session_id, vad_answer, energy, partial_answer, final_answer) ==
    /\ pipeline_state.frames_processed < max_frames
    /\ env + FrameCost(session_id, vad_answer, energy) <= max_events
    /\ ProcessFrame(session_id, vad_answer, energy, partial_answer, final_answer)
    /\ env' = env + FrameCost(session_id, vad_answer, energy)
    /\ UNCHANGED <<backlog, queue_vars>>
    /\ observed' =
          [s \in DOMAIN active_sessions' |->
              IF s = session_id
              THEN ObserveFrame(Seen(s), result', calls', active_sessions'[s],
                                pipeline_state.frames_processed)
              ELSE Seen(s)]

AgentWithin(max_events, session_id, is_speaking) ==
    /\ env < max_events
    /\ SetAgentSpeakingState(session_id, is_speaking)
    /\ env' = IF active_sessions' # active_sessions THEN env + 1 ELSE env
    /\ UNCHANGED <<backlog, queue_vars>>
    /\ observed' = [s \in DOMAIN active_sessions' |-> Seen(s)]

CleanupWithin(max_events, session_id) ==
    /\ env < max_events
    /\ CleanupSession(session_id)
    /\ env' = IF active_sessions' # active_sessions THEN env + 1 ELSE env
    /\ UNCHANGED <<backlog, queue_vars>>
    /\ observed' = [s \in DOMAIN active_sessions' |-> Seen(s)]

(* Short runs, many events *)

Frame(session_id, has_speech, energy, partial_answer, final_answer) ==
    FrameWithin(MaxFrames, MaxEvents,
                session_id, Answer(has_speech), energy, partial_answer, final_answer)

Agent(session_id, is_speaking) == AgentWithin(MaxEvents, session_id, is_speaking)

Cleanup(session_id) == CleanupWithin(MaxEvents, session_id)

Next ==
    \/ \E session_id \in SessionIds, has_speech \in BOOLEAN :
         \E energy \in FrameEnergies(session_id, has_speech),
            partial_answer \in PartialAnswers(session_id, has_speech),
            final_answer \in FinalAnswers(session_id, has_speech) :
              Frame(session_id, has_speech, energy, partial_answer, final_answer)
    \/ \E session_id \in SessionIds, is_speaking \in BOOLEAN :
         Agent(session_id, is_speaking)
    \/ \E session_id \in SessionIds : Cleanup(session_id)

Spec == Init /\ [][Next]_vars

(* Long runs, few events: enough frames to fill a transcription buffer *)

LongFrame(session_id, vad_answer, energy, partial_answer, final_answer) ==
    FrameWithin(LongFrames, LongEvents,
                session_id, vad_answer, energy, partial_answer, final_answer)

(* In the long runs the transcriber may also raise, and so may the VAD     *)
(* model (an event). *)
LongPartialAnswers(session_id, has_speech) ==
    IF Probe(session_id, has_speech).partial > 0
    THEN Texts \cup {TranscriberRaises} ELSE {<<>>}

LongFinalAnswers(session_id, has_speech) ==
    IF Probe(session_id, has_speech).final > 0
    THEN Texts \cup {TranscriberRaises} ELSE {<<>>}

LongEnergies(session_id, vad_answer) ==
    IF vad_answer = "raises"
    THEN Energies ELSE FrameEnergies(session_id, vad_answer = "speech")

NextLong ==
    \E session_id \in SessionIds, vad_answer \in VadAnswers :
      \E energy \in LongEnergies(session_id, vad_answer) :
        \E partial_answer \in
                LongPartialAnswers(session_id, ProcessVad(vad_answer, energy)),
           final_answer \in
                LongFinalAnswers(session_id, ProcessVad(vad_answer, energy)) :
             LongFrame(session_id, vad_answer, energy, partial_answer, final_answer)

SpecLong == Init /\ [][NextLong]_vars

(* Short runs whose first Backlog frames were created before the pipeline  *)
(* counted any frame *)

InitBacklog ==
    /\ active_sessions = << >>
    /\ pipeline_state = NewPipelineState
    /\ metrics = [ interruptions_detected |-> 0, transcriptions_completed |-> 0 ]
    /\ result = NoResult
    /\ analysis = NoAnalysis
    /\ calls = NoCalls
    /\ env = 0
    /\ backlog = Backlog
    /\ observed = << >>
    /\ QueueIdle

SpecBacklog == InitBacklog /\ [][Next]_vars

(* The round trip of one fresh session: LeadSilence silent frames, then    *)
(* SpeechRun speech frames, then TailSilence silent frames; the session    *)
(* and what the transcriber answers are free.                              *)

RoundTripLength == LeadSilence + SpeechRun + TailSilence

RoundTripSpeech(ordinal) ==
    ordinal > LeadSilence /\ ordinal <= LeadSilence + SpeechRun

RoundTripFrame(session_id, partial_answer, final_answer) ==
    /\ result.session_id \in {"", session_id}
    /\ FrameWithin(RoundTripLength, RoundTripLength, session_id,
                   Answer(RoundTripSpeech(pipeline_state.frames_processed + 1)),
                   Quiet, partial_answer, final_answer)

NextRoundTrip ==
    \E session_id \in SessionIds :
      \E partial_answer \in
             PartialAnswers(session_id,
                            RoundTripSpeech(pipeline_state.frames_processed + 1)),
         final_answer \in
             FinalAnswers(session_id,
                          RoundTripSpeech(pipeline_state.frames_processed + 1)) :
           RoundTripFrame(session_id, partial_answer, final_answer)

SpecRoundTrip == Init /\ [][NextRoundTrip]_vars

-----------------------------------------------------------------------------
(* Properties.                                                             *)

SpeechStates == {"speech_start", "speech_continue", "speech_end", "silence"}

(* result is the result of the last frame of session s, and s is as that   *)
(* frame left it (up to agent-state calls).                                *)
ResultIsCurrent(s) ==
    /\ s \in DOMAIN active_sessions
    /\ result.session_id = s
    /\ active_sessions[s].performance_metrics.frames_processed > 0
    /\ active_sessions[s].frame_count = result.frame_index

(* The number of silent frames at the end of the VAD flags of a session.   *)
TrailingSilence(flags) ==
    CHOOSE k \in 0..Len(flags) :
        /\ \A i \in (Len(flags) - k + 1)..Len(flags) : ~flags[i]
        /\ k < Len(flags) => flags[Len(flags) - k]

(* The session's last frames are a speech frame followed by run silent     *)
(* frames, the last of them the frame of result.                           *)
SilentRunAfterSpeech(s, run) ==
    /\ ResultIsCurrent(s)
    /\ LET flags == active_sessions[s].recent_speech_frames
       IN  /\ TrailingSilence(flags) = run
           /\ run < Len(flags)

(* C1: each of the first silence_frames_for_endpoint consecutive silent     *)
(* frames after speech returns speech_continue and leaves the session      *)
(* speech-active; speech_end comes only with the silent frame after them.  *)
C1_HangoverEndsAfterThreshold ==
    \A s \in SessionIds : \A run \in 1..silence_frames_for_endpoint :
        SilentRunAfterSpeech(s, run) =>
            /\ result.speech_state = "speech_continue"
            /\ active_sessions[s].speech_active

C1_EndsOnThresholdFrame ==
    \E s \in SessionIds :
        /\ SilentRunAfterSpeech(s, silence_frames_for_endpoint)
        /\ result.speech_state = "speech_end"
        /\ ~active_sessions[s].speech_active

(* C2: every frame gets one of the four speech states, and in every        *)
(* session speech_start and speech_end alternate, starting with            *)
(* speech_start: the session is speech-active exactly when one more start  *)
(* than ends has been returned, inactive exactly when as many.             *)
C2_StatesAlternate ==
    /\ result.frame_index # None => result.speech_state \in SpeechStates
    /\ \A s \in DOMAIN active_sessions :
          /\ active_sessions[s].speech_active
                <=> observed[s].starts = observed[s].ends + 1
          /\ ~active_sessions[s].speech_active
                <=> observed[s].starts = observed[s].ends

C2_Witness ==
    \E s \in DOMAIN active_sessions :
        /\ observed[s].starts = 1
        /\ observed[s].ends = 1
        /\ ~active_sessions[s].speech_active
        /\ ResultIsCurrent(s)
        /\ result.speech_state = "speech_end"

(* A step that processes a frame of session s. *)
FrameStep(s) ==
    /\ pipeline_state'.frames_processed = pipeline_state.frames_processed + 1
    /\ result'.session_id = s

PreSession(s) ==
    IF s \in DOMAIN active_sessions THEN active_sessions[s] ELSE NewSession(s)

(* C3: the frame that returns speech_end, in a session whose buffer is not *)
(* empty, is marked transcription-complete and leaves the buffer empty,    *)
(* and the final transcriber is called once when the buffer held enough    *)
(* audio for it.                                                           *)
C3_FinalTranscriptionAtSpeechEnd ==
    [][ \A s \in SessionIds :
          ( /\ FrameStep(s)
            /\ result'.speech_state = "speech_end"
            /\ PreSession(s).stt_buffer # <<>> )
          => /\ result'.transcription_complete
             /\ active_sessions'[s].stt_buffer = <<>>
             /\ Len(PreSession(s).stt_buffer) >= MinFinalFrames
                   => calls'.final = 1 ]_vars

FramesPerTemporalThreshold == temporal_threshold_ms \div frame_duration_ms

NotEligibleReasons == {"not_eligible", "no_analysis", "interruption_not_allowed"}

(* C4: while the agent speaks since frame 0, a frame with an index below   *)
(* temporal_threshold / frame_duration is not eligible: it is not an       *)
(* interruption, whatever its energy, speech density or keywords.          *)
C4_NotEligibleBeforeTemporalThreshold ==
    \A s \in SessionIds :
        ( /\ ResultIsCurrent(s)
          /\ active_sessions[s].agent_speaking
          /\ active_sessions[s].agent_speech_start_frame = 0
          /\ result.frame_index < FramesPerTemporalThreshold )
        => /\ ~result.is_interruption
           /\ ~result.can_interrupt
           /\ result.interruption_reason \in NotEligibleReasons

C4_EarlyInterruption ==
    \E s \in SessionIds :
        /\ ResultIsCurrent(s)
        /\ active_sessions[s].agent_speaking
        /\ active_sessions[s].agent_speech_start_frame = 0
        /\ result.frame_index < FramesPerTemporalThreshold
        /\ result.is_interruption

(* C5: no frame is classified as an interruption within cooldown_frames    *)
(* frames after a frame of the same session that was.                      *)
C5_CooldownAfterInterruption ==
    \A s \in DOMAIN observed :
        LET at == observed[s].interruptions
        IN  \A i, j \in 1..Len(at) :
                i < j => ~(at[i] < at[j] /\ at[j] < at[i] + cooldown_frames)

C5_InterruptionAfterInterruptionAtZero ==
    \E s \in DOMAIN observed :
        /\ Len(observed[s].interruptions) >= 2
        /\ observed[s].interruptions[1] = 0
        /\ ResultIsCurrent(s)
        /\ result.is_interruption
        /\ result.frame_index > 0
        /\ result.frame_index < cooldown_frames


(* C6: when the analysis scores a frame, the probability is the weighted   *)
(* sum of the factors present divided by the sum of their weights, and the *)
(* frame is an interruption exactly when that quotient exceeds the         *)
(* confidence threshold.                                                   *)
C6_RenormalisedOverPresentFactors ==
    ( /\ analysis.reason = "multi_factor_analysis"
      /\ TotalWeight(analysis.pattern_scores) > 0 )
    => /\ analysis.probability * TotalWeight(analysis.pattern_scores)
             = TotalScore(analysis.pattern_scores)
       /\ analysis.is_interruption
             <=> TotalScore(analysis.pattern_scores)
                    > confidence_threshold * TotalWeight(analysis.pattern_scores)

(* Energy and sustained speech both at their maximum, no transcript: the   *)
(* quotient over the present factors is 1, the frame is no interruption.   *)
C6_PresentFactorsAtMaximumRejected ==
    /\ analysis.reason = "multi_factor_analysis"
    /\ analysis.pattern_scores.energy_increase = Scale
    /\ analysis.pattern_scores.sustained_speech = Scale
    /\ analysis.pattern_scores.interruption_keywords = None
    /\ ~analysis.is_interruption

(* C7 (as the code has it): while no speech end has come, the buffer is    *)
(* always the most recent frames accumulated, in arrival order; it holds   *)
(* all of them up to BufferCap, and the frame that would make it           *)
(* BufferCap + 1 cuts it to the most recent BufferKeep, from where it      *)
(* grows again.                                                            *)
C7_BufferKeepsMostRecent ==
    \A s \in DOMAIN active_sessions :
        LET all == observed[s].accumulated
            buf == active_sessions[s].stt_buffer
            n   == Len(all)
        IN  observed[s].ends = 0 =>
            /\ buf = LastN(all, Len(buf))
            /\ Len(buf) = IF n <= BufferCap
                          THEN n
                          ELSE BufferKeep
                                 + ((n - BufferCap - 1) % (BufferCap - BufferKeep + 1))

(* C7 (as stated): once BufferCap frames have been accumulated the buffer  *)
(* is exactly the most recent BufferCap of them.                           *)
C7_BufferIsLastCapFrames ==
    \A s \in DOMAIN active_sessions :
        (observed[s].ends = 0 /\ Len(observed[s].accumulated) >= BufferCap)
        => active_sessions[s].stt_buffer = LastN(observed[s].accumulated, BufferCap)

C7_Witness ==
    \E s \in DOMAIN active_sessions :
        /\ observed[s].ends = 0
        /\ Len(observed[s].accumulated) = BufferCap + 1
        /\ Len(active_sessions[s].stt_buffer) = BufferKeep
        /\ active_sessions[s].stt_buffer[1] = observed[s].accumulated[BufferCap + 2 - BufferKeep]

(* C8: no session's buffer ever holds more than BufferCap frames.          *)
C8_BufferNeverExceedsCap ==
    \A s \in DOMAIN active_sessions : Len(active_sessions[s].stt_buffer) <= BufferCap

C8_Witness ==
    \E s \in DOMAIN active_sessions :
        /\ Len(observed[s].accumulated) > BufferCap + 1
        /\ Len(active_sessions[s].stt_buffer) > BufferKeep
        /\ Len(active_sessions[s].stt_buffer) <= BufferCap

(* A frame of session s processed while its agent is not speaking leaves   *)
(* the analysis out: no interruption, probability 0, the given reason, and *)
(* the energy history and the interruption bookkeeping as they were.       *)
NotAnalysedWhenAgentSilent(reason) ==
    \A s \in SessionIds :
        (FrameStep(s) /\ ~PreSession(s).agent_speaking)
        => /\ ~result'.is_interruption
           /\ result'.interruption_probability = 0
           /\ result'.interruption_reason = reason
           /\ active_sessions'[s].energy_history = PreSession(s).energy_history
           /\ active_sessions'[s].last_interruption_frame
                 = PreSession(s).last_interruption_frame
           /\ active_sessions'[s].performance_metrics.interruptions_detected
                 = PreSession(s).performance_metrics.interruptions_detected
           /\ metrics'.interruptions_detected = metrics.interruptions_detected

(* C9 (as the code has it): a frame processed while the agent is not       *)
(* speaking is no interruption, has probability 0 and the reason           *)
(* "no_analysis", and changes none of the interruption state.              *)
C9_AgentSilentNoAnalysis == [][NotAnalysedWhenAgentSilent("no_analysis")]_vars

(* C9 (as stated): the same with the reason "not_eligible".                *)
C9_AgentSilentNotEligible == [][NotAnalysedWhenAgentSilent("not_eligible")]_vars

C9_Witness ==
    \E s \in SessionIds :
        /\ ResultIsCurrent(s)
        /\ ~active_sessions[s].agent_speaking
        /\ active_sessions[s].energy_history # <<>>
        /\ result.has_speech
        /\ result.partial_text = <<"wait", "stop">>
        /\ result.interruption_reason = "no_analysis"
        /\ result.interruption_probability = 0

(* C10: the partial transcriber is called for a session at most once in    *)
(* PartialMinBuffer frames, and only while the session is speech-active    *)
(* with at least MinPartialFrames frames buffered.                         *)
C10_PartialCadence ==
    \A s \in DOMAIN active_sessions :
        /\ Len(observed[s].partial_at) = 2
              => observed[s].partial_at[2] - observed[s].partial_at[1]
                    >= PartialMinBuffer
        /\ (ResultIsCurrent(s) /\ calls.partial > 0)
              => /\ active_sessions[s].speech_active
                 /\ Len(calls.partial_audio) >= MinPartialFrames

C10_PartialOnConsecutiveFrames ==
    \E s \in DOMAIN active_sessions :
        /\ Len(observed[s].partial_at) = 2
        /\ observed[s].partial_at[2] = observed[s].partial_at[1] + 1

(* The speech state the round trip is to return for its frame number       *)
(* ordinal (from 1): silence, speech_start, speech_continue up to the      *)
(* frame before the last, speech_end on the last.                          *)
RoundTripState(ordinal) ==
    IF ordinal <= LeadSilence THEN "silence"
    ELSE IF ordinal = LeadSilence + 1 THEN "speech_start"
    ELSE IF ordinal < RoundTripLength THEN "speech_continue"
    ELSE "speech_end"

(* C11: in the round trip every frame returns the state RoundTripState     *)
(* gives it; the partial transcriber is called on the PartialMinBuffer-th  *)
(* speech frame and on none before; the final transcriber is called on the *)
(* last frame only, once, and that frame leaves the buffer empty.          *)
C11_RoundTrip ==
    \A s \in SessionIds :
        ResultIsCurrent(s) =>
            LET ordinal == active_sessions[s].performance_metrics.frames_processed
            IN  /\ result.speech_state = RoundTripState(ordinal)
                /\ ordinal < LeadSilence + PartialMinBuffer => calls.partial = 0
                /\ ordinal = LeadSilence + PartialMinBuffer => calls.partial = 1
                /\ ordinal < RoundTripLength => calls.final = 0
                /\ ordinal = RoundTripLength
                      => /\ calls.final = 1
                         /\ active_sessions[s].stt_buffer = <<>>

(* The round trip has ended: speech ended one frame early, no final        *)
(* transcription was made and the buffer still holds its frames.           *)
C11_RoundTripEndsWithoutFinal ==
    \E s \in SessionIds :
        /\ ResultIsCurrent(s)
        /\ active_sessions[s].performance_metrics.frames_processed = RoundTripLength
        /\ result.speech_state = "silence"
        /\ observed[s].starts = 1
        /\ observed[s].ends = 1
        /\ calls.final = 0
        /\ ~result.transcription_complete
        /\ active_sessions[s].stt_buffer # <<>>

(* The frame step of session s went as a frame would whose VAD model       *)
(* answered has_speech and whose partial transcriber returned              *)
(* partial_answer, the frame having the given energy.                      *)
WentAsWith(s, has_speech, energy, partial_answer) ==
    LET went == ProcessFrameUnified(NextFrame(s, energy), PreSession(s),
                                    Answer(has_speech), partial_answer,
                                    result'.final_text)
    IN  /\ result' = went.result
        /\ active_sessions'[s] = UpdateSessionState(went.session, went.result)

(* C19: a frame whose partial transcriber raised has an empty partial text *)
(* and leaves the result and the session as a transcriber that returned    *)
(* the empty text would; a frame whose VAD model raised takes has_speech   *)
(* from the energy threshold and leaves the result and the session as a    *)
(* VAD model that gave that answer would.                                  *)
C19_CollaboratorFailureRecovered ==
    [][ \A s \in SessionIds :
          (FrameStep(s) /\ (calls'.partial_raised \/ calls'.vad_raised))
          => LET has_speech == IF calls'.vad_raised
                               THEN calls'.vad_energy > energy_threshold
                               ELSE result'.has_speech
                 partial_answer == IF calls'.partial_raised
                                   THEN <<>> ELSE result'.partial_text
             IN  /\ calls'.partial_raised => result'.partial_text = <<>>
                 /\ result'.has_speech = has_speech
                 /\ \E energy \in Energies :
                       /\ calls'.vad_raised => energy = calls'.vad_energy
                       /\ WentAsWith(s, has_speech, energy, partial_answer) ]_vars

C19_Witness ==
    \E s \in SessionIds :
        /\ ResultIsCurrent(s)
        /\ calls.vad_raised
        /\ calls.vad_energy = Loud
        /\ result.has_speech
        /\ result.speech_state = "speech_continue"
        /\ calls.partial_raised
        /\ calls.partial = 1
        /\ result.partial_text = <<>>
        /\ Len(active_sessions[s].stt_buffer) > PartialMinBuffer

-----------------------------------------------------------------------------
(* The frame queue and the processing thread *)

MaxQueued == 3
QueueEvents == 1

(* enqueue_frame: a put that does not wait.  A full queue keeps its frames *)
(* and the caller gets QueueFullError.                                     *)
PutNowait(queue, frame) == IF Len(queue) < QueueCapacity THEN Append(queue, frame) ELSE queue

EnqueueFrame(session_id) ==
    LET frame == [ data        |-> trace.queued,
                   frame_index |-> pipeline_state.frames_processed,
                   energy      |-> Quiet,
                   session_id  |-> session_id ]
    IN  /\ frame_queue' = PutNowait(frame_queue, frame)
        /\ response' = [ call |-> "enqueue_frame",
                         value |-> IF Len(frame_queue) < QueueCapacity
                                   THEN "Ok" ELSE "QueueFullError" ]

(* The frames one pass of the loop collects: frame_queue.get() until the   *)
(* batch has max_batch_size frames or the queue is empty.                  *)
TakeBatchNewestFirst(queue) == [i \in 1..Min(max_batch_size, Len(queue)) |-> queue[Min(max_batch_size, Len(queue)) + 1 - i]]

TakeBatchSkipping(queue) == SubSeq(queue, 2, Min(max_batch_size, Len(queue)))

TakeBatchWhole(queue) == queue

TakeBatch(queue) == SubSeq(queue, 1, Min(max_batch_size, Len(queue)))

(* The loop's position once a frame of the batch raised: the handler in    *)
(* the body of the for loop logs it and the loop goes on with the frames   *)
(* that remain.                                                            *)
AfterFrameErrorLeavesBatch(position) == [position EXCEPT !.frame = NoFrame, !.batch = <<>>]

AfterFrameError(position) == [position EXCEPT !.frame = NoFrame]

(* Where _update_session_state leaves the session it was given: in         *)
(* active_sessions when the dict is still there, nowhere once the session  *)
(* was deleted while the frame was in flight.                              *)
StoreSessionBack(sessions, session_id, attached, updated) == (session_id :> updated) @@ sessions

StoreSession(sessions, session_id, attached, updated) == IF attached THEN [sessions EXCEPT ![session_id] = updated] ELSE sessions

(* The thread no longer holds the dict of active_sessions once the session *)
(* of its frame is deleted.                                                *)
Detach(position, session_id) ==
    IF /\ position.frame # NoFrame
       /\ position.frame.session_id = session_id
       /\ position.attached
       /\ session_id \in DOMAIN active_sessions
    THEN [position EXCEPT !.attached = FALSE, !.held = active_sessions[session_id]]
    ELSE position

EnqueueWithin(max_queued, session_id) ==
    /\ trace.queued < max_queued
    /\ EnqueueFrame(session_id)
    /\ trace' = [trace EXCEPT !.queued = IF frame_queue' # frame_queue THEN @ + 1 ELSE @]
    /\ UNCHANGED <<active_sessions, pipeline_state, metrics, result, analysis, calls,
                   env, backlog, observed, loop, is_processing, threads>>

(* while self.is_processing: collect a batch *)
CollectBatchWithin(max_taken) ==
    /\ is_processing
    /\ loop.batch = <<>>
    /\ loop.frame = NoFrame
    /\ frame_queue # <<>>
    /\ Len(trace.started) < max_taken
    /\ loop' = [loop EXCEPT !.batch = TakeBatch(frame_queue),
                            !.size = Len(TakeBatch(frame_queue))]
    /\ frame_queue' = SubSeq(frame_queue, Len(TakeBatch(frame_queue)) + 1, Len(frame_queue))
    /\ UNCHANGED <<active_sessions, pipeline_state, metrics, result, analysis, calls,
                   env, backlog, observed, is_processing, response, trace, threads>>

(* for frame in frames: session = self._get_or_create_session(...) *)
TakeSession ==
    /\ loop.batch # <<>>
    /\ loop.frame = NoFrame
    /\ LET frame == Head(loop.batch)
           got   == GetOrCreateSession(active_sessions, pipeline_state, frame.session_id)
       IN  /\ active_sessions' = got.sessions
           /\ pipeline_state' = got.pstate
           /\ loop' = [loop EXCEPT !.batch = Tail(@), !.frame = frame,
                                   !.attached = TRUE, !.held = NewSession("")]
           /\ trace' = [trace EXCEPT
                          !.started = Append(@, [ data |-> frame.data,
                                                  session_id |-> frame.session_id ]),
                          !.since[frame.session_id] = @ + 1]
    /\ UNCHANGED <<metrics, result, analysis, calls, env, backlog, observed,
                   frame_queue, is_processing, response>>

(* _update_pipeline_metrics: the load of a batch is the time it took as a  *)
(* percentage of the time its frames last, here in thousandths of a        *)
(* percent; the stored load is smoothed, the health is that of the batch.  *)
ProcessingLoad(frames_processed, processing_time_ms) == (processing_time_ms * 100 * Scale) \div (frames_processed * frame_duration_ms)

PipelineHealthInclusive(processing_load) == IF processing_load >= 150 * Scale THEN "overloaded" ELSE IF processing_load >= 100 * Scale THEN "stressed" ELSE "healthy"

PipelineHealth(processing_load) ==
    IF processing_load > 150 * Scale THEN "overloaded"
    ELSE IF processing_load > 100 * Scale THEN "stressed"
    ELSE "healthy"

UpdatePipelineMetrics(pstate, frames_processed, processing_time_ms) ==
    LET processing_load == ProcessingLoad(frames_processed, processing_time_ms)
    IN  [pstate EXCEPT !.frames_processed = @ + frames_processed,
                       !.processing_load = (@ * 9 + processing_load) \div 10,
                       !.pipeline_health = PipelineHealth(processing_load)]

BatchCounted(pstate, position, processing_time_ms) ==
    IF position.batch = <<>>
    THEN UpdatePipelineMetrics(pstate, position.size, processing_time_ms)
    ELSE pstate

BeginFrame == TakeSession /\ UNCHANGED threads

(* The rest of the body of the for loop, and what follows the last frame   *)
(* of the batch: _update_pipeline_metrics(len(frames_batch), ...).         *)
ProcessTaken(max_events, has_speech, raises, processing_time_ms) ==
    /\ loop.frame # NoFrame
    /\ env + (IF raises THEN 1 ELSE 0) <= max_events
    /\ LET frame   == loop.frame
           session == IF loop.attached THEN active_sessions[frame.session_id] ELSE loop.held
           out     == ProcessFrameUnified(frame, session, Answer(has_speech), <<>>, <<>>)
           updated == UpdateSessionState(out.session, out.result)
       IN  IF raises
           THEN /\ loop' = [AfterFrameError(loop) EXCEPT !.attached = TRUE,
                                                         !.held = NewSession("")]
                /\ trace' = [trace EXCEPT !.finished = @ + 1,
                                          !.failed = @ \cup {loop.frame.data}]
                /\ pipeline_state' = BatchCounted(pipeline_state, loop', processing_time_ms)
                /\ UNCHANGED <<active_sessions, metrics, result, analysis, calls>>
           ELSE /\ active_sessions' =
                      StoreSession(active_sessions, frame.session_id, loop.attached, updated)
                /\ metrics' = UpdateMetrics(metrics, out.result)
                /\ result' = out.result
                /\ analysis' = out.analysis
                /\ calls' = out.calls
                /\ loop' = [loop EXCEPT !.frame = NoFrame, !.attached = TRUE,
                                        !.held = NewSession("")]
                /\ trace' = [trace EXCEPT !.finished = @ + 1, !.emitted = @ + 1,
                                          !.orphaned = IF loop.attached THEN @ ELSE @ + 1]
                /\ pipeline_state' = BatchCounted(pipeline_state, loop', processing_time_ms)
    /\ env' = env + (IF raises THEN 1 ELSE 0)
    /\ UNCHANGED <<backlog, observed, frame_queue, is_processing, response>>

FinishFrameWithin(max_events, has_speech, raises, processing_time_ms) == ProcessTaken(max_events, has_speech, raises, processing_time_ms) /\ UNCHANGED threads

(* DELETE /session/{session_id}: cleanup_session returns nothing. *)
DeleteSession(max_events, session_id) ==
    /\ env < max_events
    /\ CleanupSession(session_id)
    /\ loop' = Detach(loop, session_id)
    /\ response' = [ call |-> "cleanup_session",
                     value |-> "None" ]
    /\ trace' = [trace EXCEPT !.since[session_id] = 0]
    /\ env' = env + 1
    /\ UNCHANGED <<backlog, observed, frame_queue, is_processing>>

QueueCleanupWithin(max_events, session_id) == DeleteSession(max_events, session_id) /\ UNCHANGED threads

(* shutdown: the loop is told to stop and the sessions are cleared; the    *)
(* count of active sessions stays.                                         *)
ShutdownWithin(max_events) ==
    /\ env < max_events
    /\ is_processing
    /\ is_processing' = FALSE
    /\ active_sessions' = << >>
    /\ loop' = IF loop.frame # NoFrame THEN Detach(loop, loop.frame.session_id) ELSE loop
    /\ trace' = [trace EXCEPT !.since = [s \in SessionIds |-> 0]]
    /\ env' = env + 1
    /\ UNCHANGED <<pipeline_state, metrics, result, analysis, calls, backlog, observed,
                   frame_queue, response, threads>>

(* POST /process_frame: process_audio_frame calls _process_pipeline_frame, *)
(* which the class does not define; the AttributeError is caught and the   *)
(* call ends with HTTP status 500.                                         *)
ProcessAudioFrameWithin(max_events, session_id) ==
    /\ env < max_events
    /\ response' = [ call |-> "process_audio_frame",
                     value |-> "HTTP 500" ]
    /\ env' = env + 1
    /\ UNCHANGED <<active_sessions, pipeline_state, metrics, result, analysis, calls,
                   backlog, observed, frame_queue, loop, is_processing, trace, threads>>

Enqueue(session_id) == EnqueueWithin(MaxQueued, session_id)

CollectBatch == CollectBatchWithin(MaxQueued)

FinishFrame(has_speech, raises) == FinishFrameWithin(QueueEvents, has_speech, raises, 0)

QueueCleanup(session_id) == QueueCleanupWithin(QueueEvents, session_id)

Shutdown == ShutdownWithin(QueueEvents)

ProcessAudioFrame(session_id) == ProcessAudioFrameWithin(QueueEvents, session_id)

NextQueue ==
    \/ \E session_id \in SessionIds : Enqueue(session_id)
    \/ CollectBatch
    \/ BeginFrame
    \/ \E has_speech \in BOOLEAN, raises \in BOOLEAN : FinishFrame(has_speech, raises)
    \/ \E session_id \in SessionIds : QueueCleanup(session_id)
    \/ Shutdown
    \/ \E session_id \in SessionIds : ProcessAudioFrame(session_id)

SpecQueue == Init /\ [][NextQueue]_vars


(* The processing thread runs: while it can collect a batch, take the      *)
(* session of a frame or process a frame, it does so in the end.  Frames   *)
(* of two sessions are queued; a frame may raise and the processor may be  *)
(* shut down.                                                              *)

FairFrames == 2
FairEvents == 1

FairEnqueue(session_id) == EnqueueWithin(FairFrames, session_id)

FairCollect == CollectBatchWithin(FairFrames)

FairFinish(has_speech, raises) == FinishFrameWithin(FairEvents, has_speech, raises, 0)

FairShutdown == ShutdownWithin(FairEvents)

NextFair ==
    \/ \E session_id \in SessionIds : FairEnqueue(session_id)
    \/ FairCollect
    \/ BeginFrame
    \/ \E has_speech \in BOOLEAN, raises \in BOOLEAN : FairFinish(has_speech, raises)
    \/ FairShutdown

SpecFair ==
    /\ Init
    /\ [][NextFair]_vars
    /\ WF_vars(FairCollect)
    /\ WF_vars(BeginFrame)
    /\ WF_vars(\E has_speech \in BOOLEAN : FairFinish(has_speech, FALSE))

(* The queue with the third caller of the API: POST /set_speaker_state     *)
(* runs set_agent_speaking_state on the thread of the server while the     *)
(* processing thread may hold a frame of the same session.                 *)
QueueAgentWithin(max_events, session_id, is_speaking) ==
    /\ env < max_events
    /\ SetAgentSpeakingState(session_id, is_speaking)
    /\ response' = [ call |-> "set_agent_speaking_state", value |-> "None" ]
    /\ env' = env + 1
    /\ UNCHANGED <<backlog, observed, frame_queue, loop, is_processing, trace, threads>>

QueueAgent(session_id, is_speaking) == QueueAgentWithin(QueueEvents, session_id, is_speaking)

NextAgentQueue ==
    \/ NextQueue
    \/ \E session_id \in SessionIds, is_speaking \in BOOLEAN :
          QueueAgent(session_id, is_speaking)

SpecAgentQueue == Init /\ [][NextAgentQueue]_vars

(* session_lock.  The steps of a frame and of the calls that take the lock *)
(* one by one: the processing thread takes the lock, takes the session of  *)
(* its frame and leaves the lock, calls the VAD model, calls the           *)
(* transcriber and writes the result back; cleanup_session takes the lock, *)
(* deletes and leaves it; shutdown stops the loop, waits for the thread,   *)
(* takes the lock, clears the map and leaves it.                           *)

LockFrames == 2
LockEvents == 1

(* The holder of the lock after the with block has ended. *)
KeepLock(holder) == holder

ReleaseLock(holder) == ""

LockEnqueue(session_id) == EnqueueWithin(LockFrames, session_id)

LockCollect == CollectBatchWithin(LockFrames)

LoopAcquire ==
    /\ threads.lock = ""
    /\ threads.loop = "idle"
    /\ loop.batch # <<>>
    /\ loop.frame = NoFrame
    /\ threads' = [threads EXCEPT !.lock = "loop", !.loop = "get_or_create"]
    /\ UNCHANGED <<active_sessions, pipeline_state, metrics, result, analysis, calls,
                   env, backlog, observed, frame_queue, loop, is_processing, response,
                   trace>>

LoopTakeSession ==
    /\ threads.loop = "get_or_create"
    /\ TakeSession
    /\ threads' = [threads EXCEPT !.lock = ReleaseLock(@), !.loop = "process_vad"]

LoopCall(from, to) ==
    /\ threads.loop = from
    /\ threads' = [threads EXCEPT !.loop = to]
    /\ UNCHANGED <<active_sessions, pipeline_state, metrics, result, analysis, calls,
                   env, backlog, observed, frame_queue, loop, is_processing, response,
                   trace>>

LoopVad == LoopCall("process_vad", "transcription")

LoopStt == LoopCall("transcription", "update_session_state")

LoopFinish(has_speech, raises) ==
    /\ threads.loop = "update_session_state"
    /\ ProcessTaken(LockEvents, has_speech, raises, 0)
    /\ threads' = [threads EXCEPT !.loop = "idle"]

ApiCleanupAcquire(session_id) ==
    /\ threads.lock = ""
    /\ threads.api = "idle"
    /\ env < LockEvents
    /\ threads' = [threads EXCEPT !.lock = "api", !.api = "cleanup_session",
                                  !.arg = session_id]
    /\ UNCHANGED <<active_sessions, pipeline_state, metrics, result, analysis, calls,
                   env, backlog, observed, frame_queue, loop, is_processing, response,
                   trace>>

ApiCleanup ==
    /\ threads.api = "cleanup_session"
    /\ DeleteSession(LockEvents, threads.arg)
    /\ threads' = [threads EXCEPT !.lock = ReleaseLock(@), !.api = "idle", !.arg = ""]

ApiShutdown ==
    /\ threads.api = "idle"
    /\ env < LockEvents
    /\ is_processing
    /\ is_processing' = FALSE
    /\ threads' = [threads EXCEPT !.api = "join"]
    /\ UNCHANGED <<active_sessions, pipeline_state, metrics, result, analysis, calls,
                   env, backlog, observed, frame_queue, loop, response, trace>>

ApiClearAcquire ==
    /\ threads.lock = ""
    /\ threads.api = "join"
    /\ threads' = [threads EXCEPT !.lock = "api", !.api = "clear"]
    /\ UNCHANGED <<active_sessions, pipeline_state, metrics, result, analysis, calls,
                   env, backlog, observed, frame_queue, loop, is_processing, response,
                   trace>>

ApiClear ==
    /\ threads.api = "clear"
    /\ active_sessions' = << >>
    /\ loop' = IF loop.frame # NoFrame THEN Detach(loop, loop.frame.session_id) ELSE loop
    /\ trace' = [trace EXCEPT !.since = [s \in SessionIds |-> 0]]
    /\ env' = env + 1
    /\ threads' = [threads EXCEPT !.lock = ReleaseLock(@), !.api = "idle"]
    /\ UNCHANGED <<pipeline_state, metrics, result, analysis, calls, backlog, observed,
                   frame_queue, is_processing, response>>

NextLock ==
    \/ \E session_id \in SessionIds : LockEnqueue(session_id)
    \/ LockCollect
    \/ LoopAcquire
    \/ LoopTakeSession
    \/ LoopVad
    \/ LoopStt
    \/ \E has_speech \in BOOLEAN, raises \in BOOLEAN : LoopFinish(has_speech, raises)
    \/ \E session_id \in SessionIds : ApiCleanupAcquire(session_id)
    \/ ApiCleanup
    \/ ApiShutdown
    \/ ApiClearAcquire
    \/ ApiClear

SpecLock == Init /\ [][NextLock]_vars

(* The health of the pipeline: batches of silent frames of one session,    *)
(* each taking a time at or just above one of the two thresholds.         *)

HealthFrames == 6

BatchTimes(size) ==
    LET target == size * frame_duration_ms
    IN  { target, target + 1, (target * 3) \div 2, (target * 3) \div 2 + 1 }

HealthEnqueue == EnqueueWithin(HealthFrames, "s1")

HealthCollect == CollectBatchWithin(HealthFrames)

HealthFinish(processing_time_ms) == FinishFrameWithin(0, FALSE, FALSE, processing_time_ms)

NextHealth ==
    \/ HealthEnqueue
    \/ HealthCollect
    \/ BeginFrame
    \/ \E processing_time_ms \in BatchTimes(loop.size) : HealthFinish(processing_time_ms)

SpecHealth == Init /\ [][NextHealth]_vars

-----------------------------------------------------------------------------
(* Claims about the queue and the processing thread *)

(* C13: the frames of one session are processed in the order in which they *)
(* were queued, and the processing of a frame is over before the           *)
(* processing of the next frame begins: at most one frame is in work,      *)
(* exactly when the thread holds one.                                      *)
C13_PerSessionOrder ==
    /\ \A i \in 1..Len(trace.started), j \in 1..Len(trace.started) :
          (i < j /\ trace.started[i].session_id = trace.started[j].session_id)
             => trace.started[i].data < trace.started[j].data
    /\ Len(trace.started) - trace.finished = (IF loop.frame = NoFrame THEN 0 ELSE 1)

C13_Witness ==
    /\ trace.finished = 3
    /\ trace.failed = {}
    /\ Len(trace.started) = 3
    /\ trace.started[1].session_id = "s1"
    /\ trace.started[2].session_id = "s2"
    /\ trace.started[3].session_id = "s1"
    /\ "s1" \in DOMAIN active_sessions
    /\ active_sessions["s1"].performance_metrics.frames_processed = 2

(* C14: taking the session of a frame never fails.  For an id without a    *)
(* session it makes exactly one session, with the default state (no speech *)
(* active, frame count zero, empty buffers) and counts it; for an id with  *)
(* a session it changes nothing.  The first frame of a session is          *)
(* processed from silence.                                                 *)
C14_GetOrCreate ==
    [][ /\ BeginFrame =>
             LET s == loop'.frame.session_id
             IN  IF s \in DOMAIN active_sessions
                 THEN /\ active_sessions' = active_sessions
                      /\ pipeline_state' = pipeline_state
                 ELSE /\ DOMAIN active_sessions' = DOMAIN active_sessions \cup {s}
                      /\ \A o \in DOMAIN active_sessions :
                            active_sessions'[o] = active_sessions[o]
                      /\ active_sessions'[s].session_id = s
                      /\ active_sessions'[s].frame_count = 0
                      /\ ~active_sessions'[s].speech_active
                      /\ active_sessions'[s].silence_frame_count = 0
                      /\ active_sessions'[s].stt_buffer = <<>>
                      /\ active_sessions'[s].recent_speech_frames = <<>>
                      /\ ~active_sessions'[s].agent_speaking
                      /\ active_sessions'[s].performance_metrics.frames_processed = 0
                      /\ pipeline_state'.sessions_active
                            = pipeline_state.sessions_active + 1
        /\ (\E has_speech \in BOOLEAN : FinishFrame(has_speech, FALSE))
             => \/ ~loop.attached
                \/ active_sessions[loop.frame.session_id]
                      .performance_metrics.frames_processed # 0
                \/ result'.speech_state \in {"silence", "speech_start"} ]_vars

C14_Witness ==
    /\ Len(trace.started) = 3
    /\ trace.started[1].session_id = "s1"
    /\ trace.started[2].session_id = "s1"
    /\ loop.frame # NoFrame
    /\ loop.frame.session_id = "s2"
    /\ loop.attached
    /\ DOMAIN active_sessions = {"s1", "s2"}
    /\ active_sessions["s1"].performance_metrics.frames_processed = 2
    /\ active_sessions["s2"].performance_metrics.frames_processed = 0
    /\ pipeline_state.sessions_active = 2

(* C15: deleting a session gives true exactly when the session existed,    *)
(* and then the session is gone and the count of active sessions is one    *)
(* less; it gives false when there was no such session, and then nothing   *)
(* has changed.                                                            *)
C15_DeleteTellsWhetherItExisted ==
    [][ \A s \in SessionIds :
          QueueCleanup(s) =>
             IF s \in DOMAIN active_sessions
             THEN /\ response'.value = "True"
                  /\ DOMAIN active_sessions' = DOMAIN active_sessions \ {s}
                  /\ pipeline_state'.sessions_active = pipeline_state.sessions_active - 1
             ELSE /\ response'.value = "False"
                  /\ active_sessions' = active_sessions
                  /\ pipeline_state' = pipeline_state ]_vars

C15_DeletedWithoutAnswer ==
    /\ response = [ call |-> "cleanup_session", value |-> "None" ]
    /\ trace.finished = 2
    /\ DOMAIN active_sessions = {"s2"}
    /\ pipeline_state.sessions_active = 1
    /\ trace.since["s1"] = 0
    /\ \E i \in 1..Len(trace.started) : trace.started[i].session_id = "s1"

(* C16: a session may be deleted while one of its frames is in work.  The  *)
(* frame in work is processed to its result all the same and does not      *)
(* bring the deleted session back; a frame whose processing begins after   *)
(* the delete finds a new session, so that a session never shows more      *)
(* processed frames than have begun since it was last deleted.             *)
C16_DeleteDuringProcessing ==
    [][ /\ (\E has_speech \in BOOLEAN : FinishFrame(has_speech, FALSE))
             => \/ loop.attached
                \/ /\ trace'.emitted = trace.emitted + 1
                   /\ result'.session_id = loop.frame.session_id
                   /\ active_sessions' = active_sessions
        /\ BeginFrame
             => \/ trace.since[loop'.frame.session_id] > 0
                \/ active_sessions'[loop'.frame.session_id]
                      = NewSession(loop'.frame.session_id)
        /\ \A s \in DOMAIN active_sessions' :
              active_sessions'[s].performance_metrics.frames_processed
                 <= trace'.since[s] ]_vars

C16_Witness ==
    /\ trace.orphaned = 1
    /\ trace.finished = 3
    /\ trace.failed = {}
    /\ \A i \in 1..3 : trace.started[i].session_id = "s1"
    /\ response.call = "cleanup_session"
    /\ "s1" \in DOMAIN active_sessions
    /\ active_sessions["s1"].performance_metrics.frames_processed = 1

(* The data of the frames of a sequence, in order. *)
DataOf(frames) == [i \in 1..Len(frames) |-> frames[i].data]

(* C17: a frame whose processing raises does not end the loop.  The loop   *)
(* keeps running, the frames that remain of the batch and the frames in    *)
(* the queue stay as they are, and so every frame that was queued is       *)
(* started, waits in the batch or waits in the queue, in the order of      *)
(* queueing.                                                               *)
C17_LoopSurvivesFrameFailure ==
    [][ /\ (\E has_speech \in BOOLEAN : FinishFrame(has_speech, TRUE))
             => /\ is_processing' = is_processing
                /\ loop'.frame = NoFrame
                /\ loop'.batch = loop.batch
                /\ frame_queue' = frame_queue
        /\ DataOf(trace'.started) \o DataOf(loop'.batch) \o DataOf(frame_queue')
              = [i \in 1..trace'.queued |-> i - 1] ]_vars

C17_Witness ==
    /\ trace.failed = {0}
    /\ trace.finished = 3
    /\ trace.emitted = 2
    /\ is_processing
    /\ frame_queue = <<>>
    /\ result.frame_index # None
    /\ pipeline_state.frames_processed = 3

(* C18: every frame taken from the queue gives exactly one result; the     *)
(* result of a frame whose processing raised carries the index and the     *)
(* session of that frame, no speech, empty texts and no interruption.      *)
C18_OneResultPerFrame ==
    [][ /\ (\E has_speech \in BOOLEAN : FinishFrame(has_speech, TRUE))
             => /\ trace'.emitted = trace.emitted + 1
                /\ result'.frame_index = loop.frame.frame_index
                /\ result'.session_id = loop.frame.session_id
                /\ ~result'.has_speech
                /\ result'.partial_text = <<>>
                /\ result'.final_text = <<>>
                /\ ~result'.is_interruption
        /\ trace'.emitted = trace'.finished ]_vars

C18_FailedFrameWithoutResult ==
    /\ trace.failed = {1}
    /\ trace.finished = 3
    /\ trace.emitted = 2
    /\ trace.started[2].session_id = "s2"
    /\ result.session_id = "s1"

(* C20: process_audio_frame runs the frame through the pipeline, gives a   *)
(* result with status "processed", counts the frame in frames_processed    *)
(* and does not end in an error.                                           *)
C20_SynchronousFrameProcessed ==
    [][ \A s \in SessionIds :
          ProcessAudioFrame(s)
             => /\ response'.value = "processed"
                /\ pipeline_state'.frames_processed = pipeline_state.frames_processed + 1
                /\ result'.session_id = s ]_vars

C20_CallEndedInError ==
    /\ response = [ call |-> "process_audio_frame", value |-> "HTTP 500" ]
    /\ pipeline_state.frames_processed = 0
    /\ active_sessions = << >>
    /\ result = NoResult

-----------------------------------------------------------------------------
(* Claims about the health of the pipeline *)

(* C21: after every batch the health is that of the load of the batch,     *)
(* its time as a percentage of 20 ms per frame: overloaded above 150,      *)
(* stressed above 100 and up to 150, healthy up to 100.                    *)
C21_HealthClassification ==
    [][ \A processing_time_ms \in BatchTimes(loop.size) :
          (HealthFinish(processing_time_ms) /\ loop.batch = <<>>)
             => pipeline_state'.pipeline_health =
                   IF processing_time_ms * 100 > 150 * loop.size * 20
                   THEN "overloaded"
                   ELSE IF processing_time_ms * 100 > 100 * loop.size * 20
                   THEN "stressed"
                   ELSE "healthy" ]_vars

C21_StressedAtExactlyOneHundredFifty ==
    /\ pipeline_state.frames_processed = 5
    /\ pipeline_state.processing_load = 15 * Scale
    /\ pipeline_state.pipeline_health = "stressed"
    /\ loop.frame = NoFrame

-----------------------------------------------------------------------------
(* Claims about who writes the state of a session *)

(* The frame of session s that the processing thread has in work. *)
InWork(s) == loop.frame # NoFrame /\ loop.frame.session_id = s /\ loop.attached

(* C22: the state of a live session is changed only by the processing      *)
(* thread, in the step that processes a frame of that session; while a     *)
(* frame of the session is in work no call of the API changes the session. *)
C22_SingleWriter ==
    [][ \A s \in DOMAIN active_sessions \cap DOMAIN active_sessions' :
          active_sessions'[s] # active_sessions[s]
             => /\ InWork(s)
                /\ loop'.frame = NoFrame
                /\ trace'.finished = trace.finished + 1 ]_vars

C22_AgentStateWrittenDuringFrame ==
    /\ InWork("s1")
    /\ "s1" \in DOMAIN active_sessions
    /\ active_sessions["s1"].agent_speaking
    /\ active_sessions["s1"].performance_metrics.frames_processed = 1
    /\ response.call = "set_agent_speaking_state"
    /\ trace.since["s1"] = 2

(* C23: while the processing thread is in a call of the VAD model or of    *)
(* the transcriber it does not hold session_lock; the lock is held only    *)
(* while one entry of the map is looked up, inserted or removed; no thread *)
(* takes the lock while it is held.                                        *)
C23_LockOnlyAroundOneEntry ==
    /\ threads.loop \in {"process_vad", "transcription"} => threads.lock # "loop"
    /\ threads.lock = "loop" => threads.loop = "get_or_create"
    /\ threads.lock = "api"
          => \/ threads.api = "cleanup_session"
             \/ threads.api = "clear" /\ Cardinality(DOMAIN active_sessions) <= 1
    /\ threads.lock # "loop" => threads.loop # "get_or_create"
    /\ threads.lock # "api" => threads.api \notin {"cleanup_session", "clear"}

(* C23, amended: as above, but shutdown holds the lock while it clears the *)
(* whole map.                                                              *)
C23_LockOnlyAroundTheMap ==
    /\ threads.loop \in {"process_vad", "transcription"} => threads.lock # "loop"
    /\ threads.lock = "loop" => threads.loop = "get_or_create"
    /\ threads.lock = "api" => threads.api \in {"cleanup_session", "clear"}
    /\ threads.lock # "loop" => threads.loop # "get_or_create"
    /\ threads.lock # "api" => threads.api \notin {"cleanup_session", "clear"}

C23_Witness ==
    /\ threads.loop = "transcription"
    /\ threads.lock = "api"
    /\ threads.api = "cleanup_session"
    /\ threads.arg = loop.frame.session_id
    /\ trace.finished = 1

-----------------------------------------------------------------------------
(* Claims about the consumption of the queue *)

(* The frames with a given data that are started, wait in the batch or     *)
(* wait in the queue.                                                      *)
Occurrences(data, datas) == Cardinality({i \in 1..Len(datas) : datas[i] = data})

(* C24: every frame that was accepted into the queue is taken and          *)
(* processed exactly once: it is in the queue, in the batch or started,    *)
(* and in one of them only once; and while the loop runs and is not shut   *)
(* down every accepted frame is processed in the end.                      *)
C24_ExactlyOnce ==
    /\ [](\A data \in 0..(FairFrames - 1) :
            Occurrences(data, DataOf(trace.started)) + Occurrences(data, DataOf(loop.batch))
               + Occurrences(data, DataOf(frame_queue))
                  = (IF data < trace.queued THEN 1 ELSE 0))
    /\ \A n \in 1..FairFrames :
          (trace.queued >= n) ~> (trace.finished >= n \/ ~is_processing)

C24_Witness ==
    /\ trace.queued = 2
    /\ trace.finished = 2
    /\ DataOf(trace.started) = <<0, 1>>
    /\ is_processing
    /\ frame_queue = <<>>
    /\ pipeline_state.frames_processed = 2
    /\ pipeline_state.sessions_active = 2

-----------------------------------------------------------------------------
(* Claims about the effects of a frame on its session *)

(* The conversation turn of a session: the session dict has no such key.   *)
ConversationTurn(session) ==
    IF "conversation_turn" \in DOMAIN session THEN session.conversation_turn ELSE "None"

(* C25: a frame with index N that is classified as an interruption leaves  *)
(* the session with last_interruption_frame N, one more detected           *)
(* interruption and the conversation turn "user"; a frame that is not      *)
(* classified as an interruption changes none of the three.                *)
C25_PositiveDecisionEffect ==
    [][ \A s \in SessionIds :
          FrameStep(s) =>
             IF result'.is_interruption
             THEN /\ active_sessions'[s].last_interruption_frame = result'.frame_index
                  /\ active_sessions'[s].performance_metrics.interruptions_detected
                        = PreSession(s).performance_metrics.interruptions_detected + 1
                  /\ ConversationTurn(active_sessions'[s]) = "user"
             ELSE /\ active_sessions'[s].last_interruption_frame
                        = PreSession(s).last_interruption_frame
                  /\ active_sessions'[s].performance_metrics.interruptions_detected
                        = PreSession(s).performance_metrics.interruptions_detected
                  /\ ConversationTurn(active_sessions'[s])
                        = ConversationTurn(PreSession(s)) ]_vars

C25_InterruptionWithoutTurn ==
    /\ ResultIsCurrent("s1")
    /\ result.is_interruption
    /\ active_sessions["s1"].last_interruption_frame = result.frame_index
    /\ active_sessions["s1"].performance_metrics.interruptions_detected = 1
    /\ ConversationTurn(active_sessions["s1"]) = "None"

(* C26: a silent frame of a session in active speech first increments the  *)
(* silence counter; the frame returns speech_end and ends the active       *)
(* speech exactly when the incremented counter equals the threshold, and   *)
(* returns speech_continue and leaves the speech active for every smaller  *)
(* value.                                                                  *)
C26_SpeechEndAtThreshold ==
    [][ \A s \in SessionIds :
          (FrameStep(s) /\ ~result'.has_speech /\ PreSession(s).speech_active)
             => /\ active_sessions'[s].silence_frame_count
                      = PreSession(s).silence_frame_count + 1
                /\ active_sessions'[s].silence_frame_count <= silence_frames_for_endpoint
                /\ IF active_sessions'[s].silence_frame_count = silence_frames_for_endpoint
                   THEN /\ result'.speech_state = "speech_end"
                        /\ ~active_sessions'[s].speech_active
                   ELSE /\ result'.speech_state = "speech_continue"
                        /\ active_sessions'[s].speech_active ]_vars

C26_Witness ==
    /\ ResultIsCurrent("s1")
    /\ result.speech_state = "speech_end"
    /\ ~result.has_speech
    /\ active_sessions["s1"].silence_frame_count = silence_frames_for_endpoint
    /\ ~active_sessions["s1"].speech_active
    /\ active_sessions["s1"].performance_metrics.frames_processed = 11

(* C27: after every frame with speech the silence counter of the session   *)
(* is 0, and the active speech of a session ends only on a frame after     *)
(* which the silence counter is greater than the threshold.                *)
C27_SpeechEndsAfterCounterExceedsThreshold ==
    [][ \A s \in SessionIds :
          FrameStep(s)
             => /\ result'.has_speech => active_sessions'[s].silence_frame_count = 0
                /\ (PreSession(s).speech_active /\ ~active_sessions'[s].speech_active)
                     => active_sessions'[s].silence_frame_count
                           > silence_frames_for_endpoint ]_vars

C27_SpeechEndedWithCounterAtThreshold ==
    /\ ResultIsCurrent("s2")
    /\ result.speech_state = "speech_end"
    /\ ~active_sessions["s2"].speech_active
    /\ active_sessions["s2"].silence_frame_count = silence_frames_for_endpoint
    /\ active_sessions["s2"].speech_end_frame = result.frame_index

(* C28: the audio of a frame is appended to the buffer of its session      *)
(* exactly when the frame has speech or the session was in active speech   *)
(* when the frame arrived: every silent frame of the hangover, the frame   *)
(* that returns speech_end included, is appended, and a frame in plain     *)
(* silence is not.                                                         *)
C28_AccumulationRule ==
    [][ \A s \in SessionIds :
          FrameStep(s)
             => ( Len(observed'[s].accumulated) = Len(Seen(s).accumulated) + 1
                    <=> (result'.has_speech \/ PreSession(s).speech_active) ) ]_vars

C28_SpeechEndFrameNotAppended ==
    /\ ResultIsCurrent("s1")
    /\ result.speech_state = "speech_end"
    /\ pipeline_state.frames_processed = 11
    /\ Len(active_sessions["s1"].stt_buffer) = 10
    /\ active_sessions["s1"].stt_buffer[10] = 9
    /\ observed["s1"].accumulated = active_sessions["s1"].stt_buffer

(* C29: a frame that returns speech_end while the buffer holds less than   *)
(* 300 ms of audio, the frame itself counted, gives no final               *)
(* transcription: the final transcriber is not called, final_text is       *)
(* empty, the frame is not marked transcription-complete and no completed  *)
(* transcription is counted.                                               *)
C29_NoFinalForShortBuffer ==
    [][ \A s \in SessionIds :
          ( /\ FrameStep(s)
            /\ result'.speech_state = "speech_end"
            /\ Len(PreSession(s).stt_buffer) + 1 < MinFinalFrames )
          => /\ calls'.final = 0
             /\ result'.final_text = <<>>
             /\ ~result'.transcription_complete
             /\ active_sessions'[s].performance_metrics.transcriptions_completed
                   = PreSession(s).performance_metrics.transcriptions_completed
             /\ metrics'.transcriptions_completed = metrics.transcriptions_completed ]_vars

C29_Witness ==
    /\ ResultIsCurrent("s1")
    /\ result.speech_state = "speech_end"
    /\ Len(active_sessions["s1"].stt_buffer) = 10
    /\ ~result.transcription_complete
    /\ result.final_text = <<>>
    /\ calls.final = 0
    /\ metrics.transcriptions_completed = 0

(* C30: the buffer of a live session becomes empty only on a frame that    *)
(* returns speech_end and makes the final transcription; no other frame,   *)
(* with or without a partial transcription, and no eviction at the cap     *)
(* leaves a buffer empty that held audio.                                  *)
C30_BufferEmptiedOnlyAtSpeechEnd ==
    [][ \A s \in DOMAIN active_sessions \cap DOMAIN active_sessions' :
          /\ (active_sessions[s].stt_buffer # <<>> /\ active_sessions'[s].stt_buffer = <<>>)
                => /\ FrameStep(s)
                   /\ result'.speech_state = "speech_end"
                   /\ result'.transcription_complete
          /\ Len(active_sessions'[s].stt_buffer) < Len(active_sessions[s].stt_buffer)
                => \/ Len(active_sessions'[s].stt_buffer) = BufferKeep
                   \/ result'.speech_state = "speech_end" ]_vars

C30_Witness ==
    \E s \in DOMAIN active_sessions :
        /\ ResultIsCurrent(s)
        /\ calls.partial = 1
        /\ result.speech_state = "speech_continue"
        /\ ~result.has_speech
        /\ Len(observed[s].accumulated) = BufferCap + 1
        /\ Len(active_sessions[s].stt_buffer) = BufferKeep

-----------------------------------------------------------------------------
(* Claims about the factors of the interruption analysis *)

(* The speech flags that the analysis of the next frame of s reads.        *)
FlagsBefore(s) == PreSession(s).recent_speech_frames

(* C31: on every analysed frame the sustained-speech factor is present     *)
(* exactly when the session has at least DensityWindow recorded speech     *)
(* flags and at least 3 of the last 5 are true (fraction >= 0.6), and its  *)
(* value is then that fraction; 3 of 5 gives the factor with value 0.6.    *)
C31_SustainedSpeechFromThreeOfFive ==
    [][ \A s \in SessionIds :
          FrameStep(s) /\ analysis'.reason = "multi_factor_analysis" =>
             LET spoken == CountTrue(LastN(FlagsBefore(s), DensityWindow))
             IN  IF Len(FlagsBefore(s)) >= DensityWindow /\ spoken >= 3
                 THEN analysis'.pattern_scores.sustained_speech
                         = (spoken * Scale) \div DensityWindow
                 ELSE analysis'.pattern_scores.sustained_speech = None ]_vars

(* An analysed frame after five flags of which three are true: the factor  *)
(* is absent.                                                              *)
C31_ThreeOfFiveWithoutFactor ==
    \E s \in SessionIds :
        /\ ResultIsCurrent(s)
        /\ analysis.reason = "multi_factor_analysis"
        /\ LET flags == active_sessions[s].recent_speech_frames
               before == SubSeq(flags, 1, Len(flags) - 1)
           IN  /\ Len(flags) = DensityWindow + 1
               /\ CountTrue(before) = 3
        /\ analysis.pattern_scores.sustained_speech = None

-----------------------------------------------------------------------------
(* Claims about silence *)

(* C32: a frame without speech of a session that is not in active speech   *)
(* is reported as silence, calls neither transcriber and leaves            *)
(* speech_active, silence_frame_count and the transcription buffer as they *)
(* were; by induction the same holds of any number of such frames.         *)
C32_SilenceLeavesSessionUntouched ==
    [][ \A s \in SessionIds :
          FrameStep(s) /\ ~PreSession(s).speech_active /\ ~result'.has_speech =>
             /\ result'.speech_state = "silence"
             /\ calls'.partial = 0 /\ calls'.final = 0
             /\ result'.partial_text = <<>> /\ result'.final_text = <<>>
             /\ ~active_sessions'[s].speech_active
             /\ active_sessions'[s].silence_frame_count
                   = PreSession(s).silence_frame_count
             /\ active_sessions'[s].stt_buffer = PreSession(s).stt_buffer ]_vars

(* A silent frame after the speech of the session has ended: the counter   *)
(* and the buffer that the speech left are still there.                    *)
C32_Witness ==
    \E s \in SessionIds :
        /\ ResultIsCurrent(s)
        /\ result.speech_state = "silence"
        /\ ~active_sessions[s].speech_active
        /\ active_sessions[s].silence_frame_count = silence_frames_for_endpoint
        /\ active_sessions[s].stt_buffer # <<>>
        /\ TrailingSilence(active_sessions[s].recent_speech_frames)
              = silence_frames_for_endpoint + 1

-----------------------------------------------------------------------------
(* Claims about the rolling histories *)

(* C33: after every processed frame of a session the speech-flag history   *)
(* and the energy history hold at most HistoryKeep entries each, each has  *)
(* got the value of that frame as its last entry, and so both describe the *)
(* same most recent frames.                                                *)
C33_HistoriesOfTheSameFrames ==
    [][ \A s \in SessionIds :
          FrameStep(s) =>
             LET flags    == active_sessions'[s].recent_speech_frames
                 energies == active_sessions'[s].energy_history
             IN  /\ Len(flags) <= HistoryKeep /\ Len(energies) <= HistoryKeep
                 /\ flags = LastN(Append(FlagsBefore(s), result'.has_speech),
                                  HistoryKeep)
                 /\ \E energy \in Energies :
                       energies = LastN(Append(PreSession(s).energy_history, energy),
                                        HistoryKeep)
                 /\ Len(energies) = Len(flags) ]_vars

(* Frames of a session were processed and its energy history is empty.     *)
C33_FramesWithoutEnergy ==
    \E s \in SessionIds :
        /\ ResultIsCurrent(s)
        /\ Len(active_sessions[s].recent_speech_frames) = 2
        /\ active_sessions[s].recent_speech_frames[2] = result.has_speech
        /\ active_sessions[s].energy_history = <<>>

-----------------------------------------------------------------------------
(* Claims about the batches of the processing loop *)

(* The step in which the loop collects a batch. *)
BatchCollected == loop.batch = <<>> /\ loop.frame = NoFrame /\ loop'.batch # <<>>

(* The step in which the loop finishes the last frame of its batch. *)
BatchFinished == loop.frame # NoFrame /\ loop.batch = <<>> /\ loop'.frame = NoFrame

(* C34: every batch has between 1 and max_batch_size frames, the first     *)
(* frames of the queue in their order; the frames of a batch are processed *)
(* one after the other in that order; and the count of processed frames,   *)
(* which only the health monitor moves, moves once per batch, by the size  *)
(* of the batch, when its last frame is finished.                          *)
C34_Batching ==
    [][ /\ BatchCollected =>
              /\ Len(loop'.batch) \in 1..max_batch_size
              /\ loop'.size = Len(loop'.batch)
              /\ frame_queue = loop'.batch \o frame_queue'
        /\ (loop.frame = NoFrame /\ loop'.frame # NoFrame) =>
              /\ loop'.frame = Head(loop.batch)
              /\ loop'.batch = Tail(loop.batch)
        /\ \A i \in DOMAIN trace'.started : trace'.started[i].data = i - 1
        /\ IF BatchFinished
           THEN /\ loop.size \in 1..max_batch_size
                /\ pipeline_state'.frames_processed
                      = pipeline_state.frames_processed + loop.size
                /\ pipeline_state'.frames_processed = trace'.finished
           ELSE pipeline_state'.frames_processed = pipeline_state.frames_processed
      ]_vars

(* A full batch was processed and counted while a sixth frame waited, and  *)
(* the sixth frame is the next batch.                                      *)
C34_Witness ==
    /\ pipeline_state.frames_processed = max_batch_size
    /\ trace.finished = max_batch_size
    /\ frame_queue = <<>>
    /\ Len(loop.batch) = 1
    /\ loop.size = 1
    /\ loop.batch[1].data = max_batch_size

-----------------------------------------------------------------------------
(* Claims about the silence counter *)

SilenceCounterInRange(session) ==
    /\ session.silence_frame_count \in 0..silence_frames_for_endpoint
    /\ session.speech_active =>
          session.silence_frame_count < silence_frames_for_endpoint

(* C35: the silence counter of every session is between 0 and the hangover *)
(* threshold and below the threshold while the speech is active; only the  *)
(* frame of a session in active speech, or a frame that starts a speech,   *)
(* changes the counter.                                                    *)
C35_SilenceCounterRange ==
    [][ \A s \in DOMAIN active_sessions' :
          /\ SilenceCounterInRange(active_sessions'[s])
          /\ active_sessions'[s].silence_frame_count
                   # PreSession(s).silence_frame_count
                => /\ FrameStep(s)
                   /\ \/ PreSession(s).speech_active
                      \/ result'.speech_state = "speech_start" ]_vars

(* The counter at the threshold in a session whose speech has ended: the   *)
(* session's first frame started the speech, ten silent frames followed.   *)
C35_Witness ==
    \E s \in SessionIds :
        /\ ResultIsCurrent(s)
        /\ ~active_sessions[s].speech_active
        /\ active_sessions[s].silence_frame_count = silence_frames_for_endpoint
        /\ active_sessions[s].speech_start_frame = 0
        /\ active_sessions[s].recent_speech_frames[1]
        /\ Len(active_sessions[s].recent_speech_frames) = silence_frames_for_endpoint + 1

-----------------------------------------------------------------------------
(* Claims about the count of sessions *)

(* C36: whatever the interleaving of _get_or_create_session,               *)
(* cleanup_session and shutdown, pipeline_state['sessions_active'] is the  *)
(* number of entries of active_sessions, and it is never negative.         *)
C36_SessionCountConsistent ==
    /\ pipeline_state.sessions_active = Cardinality(DOMAIN active_sessions)
    /\ pipeline_state.sessions_active >= 0

(* shutdown has returned: no session is left and two are counted.          *)
C36_SessionsCountedAfterShutdown ==
    /\ ~is_processing
    /\ threads.api = "idle"
    /\ threads.lock = ""
    /\ active_sessions = << >>
    /\ pipeline_state.sessions_active = 2

-----------------------------------------------------------------------------
(* Claims about the decision of the interruption analysis *)

(* C37: a frame that is classified as an interruption has speech, has      *)
(* can_interrupt true and was processed while the agent of its session was *)
(* speaking; a result with can_interrupt false has probability 0 and is    *)
(* not an interruption.                                                    *)
C37_PositiveDecisionPreconditions ==
    [][ \A s \in SessionIds :
          FrameStep(s) =>
             /\ result'.is_interruption =>
                   /\ result'.has_speech
                   /\ result'.can_interrupt
                   /\ PreSession(s).agent_speaking
             /\ ~result'.can_interrupt =>
                   /\ result'.interruption_probability = 0
                   /\ ~result'.is_interruption ]_vars

(* A frame classified as an interruption, in a session of which earlier    *)
(* frames went without analysis.                                           *)
C37_Witness ==
    \E s \in SessionIds :
        /\ ResultIsCurrent(s)
        /\ result.is_interruption
        /\ result.has_speech
        /\ result.can_interrupt
        /\ result.interruption_probability > confidence_threshold
        /\ active_sessions[s].agent_speaking
        /\ Len(active_sessions[s].energy_history)
              < Len(active_sessions[s].recent_speech_frames)

(* The factors of a set of scores that are present. *)
FactorsPresent(scores) == { f \in DOMAIN scores : scores[f] # None }

(* C38: the probability that the analysis computes is at most the sum of   *)
(* the weights of the factors that are present, and at most 1; a frame is  *)
(* classified as an interruption only when the energy increase, the        *)
(* sustained speech and the interruption keywords are all present.         *)
C38_ProbabilityBoundedByPresentWeights ==
    [][ \A s \in SessionIds :
          FrameStep(s) /\ analysis'.reason = "multi_factor_analysis" =>
             /\ analysis'.probability <= TotalWeight(analysis'.pattern_scores)
             /\ analysis'.probability <= Scale
             /\ result'.interruption_probability = analysis'.probability
             /\ result'.is_interruption =>
                   FactorsPresent(analysis'.pattern_scores)
                      = {"energy_increase", "sustained_speech",
                         "interruption_keywords"} ]_vars

(* An analysed frame with the two heaviest factors at their maximum: the   *)
(* probability is the sum of their weights and the frame is not an         *)
(* interruption.                                                           *)
C38_Witness ==
    \E s \in SessionIds :
        /\ ResultIsCurrent(s)
        /\ analysis.reason = "multi_factor_analysis"
        /\ Cardinality(FactorsPresent(analysis.pattern_scores)) = 2
        /\ analysis.probability = TotalWeight(analysis.pattern_scores)
        /\ analysis.probability = confidence_threshold
        /\ ~result.is_interruption

-----------------------------------------------------------------------------
(* The processing loop step by step, and shutdown.  The thread is at the   *)
(* test of its while loop ("idle"), collecting a batch with one            *)
(* frame_queue.get per step ("collect"), processing the batch ("process")  *)
(* or gone ("exited").  Frames of one session arrive at any time, also     *)
(* after shutdown; shutdown waits for the thread with a timeout, so it may *)
(* clear the sessions before the thread is gone.  The frames are silent.   *)

StopFrames == 6

LoopContinuesAlways(processing) == TRUE

(* while self.is_processing *)
LoopContinues(processing) == processing

LoopStepped(to) == [threads EXCEPT !.loop = to, !.steps = IF is_processing THEN @ ELSE @ + 1]

StopEnqueue == EnqueueWithin(StopFrames, "s1")

StopCheck ==
    /\ threads.loop = "idle"
    /\ threads' = LoopStepped(IF LoopContinues(is_processing) THEN "collect" ELSE "exited")
    /\ UNCHANGED <<active_sessions, pipeline_state, metrics, result, analysis, calls,
                   env, backlog, observed, frame_queue, loop, is_processing, response,
                   trace>>

(* frame = self.frame_queue.get(timeout=0.005) returns a frame *)
StopGet ==
    /\ threads.loop = "collect"
    /\ frame_queue # <<>>
    /\ loop' = [loop EXCEPT !.batch = Append(@, Head(frame_queue)),
                            !.size = Len(loop.batch) + 1]
    /\ frame_queue' = Tail(frame_queue)
    /\ threads' = LoopStepped(IF Len(loop.batch) + 1 < max_batch_size
                              THEN "collect" ELSE "process")
    /\ UNCHANGED <<active_sessions, pipeline_state, metrics, result, analysis, calls,
                   env, backlog, observed, is_processing, response, trace>>

(* the get times out on the empty queue: except Empty: break *)
StopEmpty ==
    /\ threads.loop = "collect"
    /\ frame_queue = <<>>
    /\ threads' = LoopStepped(IF loop.batch = <<>> THEN "idle" ELSE "process")
    /\ UNCHANGED <<active_sessions, pipeline_state, metrics, result, analysis, calls,
                   env, backlog, observed, frame_queue, loop, is_processing, response,
                   trace>>

StopBegin ==
    /\ threads.loop = "process"
    /\ TakeSession
    /\ threads' = LoopStepped("process")

StopFinish ==
    /\ threads.loop = "process"
    /\ ProcessTaken(0, FALSE, FALSE, 0)
    /\ threads' = LoopStepped(IF loop.batch = <<>> THEN "idle" ELSE "process")

(* self.is_processing = False; self.processing_thread.join(timeout=5) *)
StopShutdown ==
    /\ threads.api = "idle"
    /\ is_processing
    /\ is_processing' = FALSE
    /\ threads' = [threads EXCEPT !.api = "join"]
    /\ UNCHANGED <<active_sessions, pipeline_state, metrics, result, analysis, calls,
                   env, backlog, observed, frame_queue, loop, response, trace>>

(* the join returns: the thread is gone (joined) or the 5 s are over *)
StopJoin(joined) ==
    /\ threads.api = "join"
    /\ joined = (threads.loop = "exited")
    /\ threads' = [threads EXCEPT !.api = "clear"]
    /\ UNCHANGED <<active_sessions, pipeline_state, metrics, result, analysis, calls,
                   env, backlog, observed, frame_queue, loop, is_processing, response,
                   trace>>

(* with self.session_lock: self.active_sessions.clear(); shutdown returns *)
StopClear ==
    /\ threads.api = "clear"
    /\ active_sessions' = << >>
    /\ loop' = IF loop.frame # NoFrame THEN Detach(loop, loop.frame.session_id) ELSE loop
    /\ trace' = [trace EXCEPT !.since = [s \in SessionIds |-> 0]]
    /\ response' = [ call |-> "shutdown", value |-> "None" ]
    /\ threads' = [threads EXCEPT !.api = "idle"]
    /\ UNCHANGED <<pipeline_state, metrics, result, analysis, calls, env, backlog,
                   observed, frame_queue, is_processing>>

LoopStep ==
    \/ StopCheck
    \/ StopGet
    \/ StopEmpty
    \/ StopBegin
    \/ StopFinish

NextStop ==
    \/ StopEnqueue
    \/ StopCheck
    \/ StopGet
    \/ StopEmpty
    \/ StopBegin
    \/ StopFinish
    \/ StopShutdown
    \/ \E joined \in BOOLEAN : StopJoin(joined)
    \/ StopClear

(* The processing thread is a running thread: it takes its next step.      *)
SpecStop == Init /\ [][NextStop]_vars /\ WF_vars(LoopStep)

(* The steps of the longest way out of the loop: a full batch is           *)
(* collected, begun and finished frame by frame, then the test fails.      *)
LoopStepsToExit == 3 * max_batch_size + 1

(* C39: once shutdown has set is_processing to false the processing loop   *)
(* exits, after at most LoopStepsToExit steps of its own, with an empty    *)
(* queue as with frames that keep arriving; no frame is begun, finished or *)
(* collected once the loop has exited; and the session map is empty when   *)
(* shutdown returns.                                                       *)
C39_ShutdownTerminatesLoop ==
    /\ (~is_processing) ~> (threads.loop = "exited")
    /\ [](threads.steps <= LoopStepsToExit)
    /\ [][ /\ threads.loop = "exited" =>
                /\ threads'.loop = "exited"
                /\ loop' = loop
                /\ trace'.started = trace.started
                /\ trace'.finished = trace.finished
                /\ pipeline_state' = pipeline_state
           /\ (threads.api = "clear" /\ threads'.api = "idle") =>
                active_sessions' = << >> ]_vars

(* The loop has exited by the longest way, shutdown has returned after it, *)
(* and a frame that arrived in between is left in the queue.               *)
C39_Witness ==
    /\ threads.loop = "exited"
    /\ threads.steps = LoopStepsToExit
    /\ threads.api = "idle"
    /\ response.call = "shutdown"
    /\ active_sessions = << >>
    /\ pipeline_state.frames_processed = max_batch_size
    /\ frame_queue # <<>>

-----------------------------------------------------------------------------
(* Claims about the agent state *)

(* C40: set_agent_speaking_state with the value the session already has    *)
(* leaves agent_speaking and agent_speech_start_frame as they are; a       *)
(* change from false to true records the frame count of the session as     *)
(* agent_speech_start_frame, a change from true to false clears it; no     *)
(* other field of the session and no other session is changed.  A session  *)
(* that the call creates counts as the new session it starts from.         *)
C40_SetAgentSpeakingStateIdempotent ==
    [][ \A s \in SessionIds, is_speaking \in BOOLEAN :
          Agent(s, is_speaking) =>
             LET before == PreSession(s) IN
             /\ active_sessions'[s] =
                   [before EXCEPT
                      !.agent_speaking = is_speaking,
                      !.agent_speech_start_frame =
                          IF is_speaking = before.agent_speaking THEN @
                          ELSE IF is_speaking THEN before.frame_count
                          ELSE None]
             /\ \A t \in DOMAIN active_sessions \ {s} :
                   t \in DOMAIN active_sessions'
                      /\ active_sessions'[t] = active_sessions[t] ]_vars

(* The agent of a session began to speak at frame count 2 and the session  *)
(* has gone on since: a second call with true is due to change nothing.    *)
C40_Witness ==
    \E s \in SessionIds :
        /\ s \in DOMAIN active_sessions
        /\ active_sessions[s].agent_speaking
        /\ active_sessions[s].agent_speech_start_frame = 2
        /\ active_sessions[s].frame_count = 4
        /\ ENABLED Agent(s, TRUE)

=============================================================================
